---- MODULE Spec2Model ----
(***************************************************************************)
(* Model of the pointercrate database actor (src/src/actor/database.rs),   *)
(* the request context (src/src/context.rs) and the demon patch            *)
(* (src/src/model/demon/patch.rs).                                         *)
(*                                                                         *)
(* Every worker of the SyncArbiter executes one message at a time.  A      *)
(* handler is split into steps at its statements that touch the pool or    *)
(* the store, so that workers interleave at statement granularity; the     *)
(* local computation between two such statements belongs to one step.      *)
(***************************************************************************)
EXTENDS Integers, Sequences, FiniteSets, TLC

\* ------------------------------------------------------------------ bounds

\* Number of messages the actor accepts in one behaviour.
MaxCommands == 1

\* ------------------------------------------------------- program constants

\* SyncArbiter::start(4, ...)
NumWorkers == 4
\* config::LIST_SIZE and config::EXTENDED_LIST_SIZE, scaled to a list of
\* three demons: position 1 is the main list, 2 the extended list, 3 legacy.
LIST_SIZE == 1
EXTENDED_LIST_SIZE == 2

\* DefaultHasher yields a u64; the model keeps the residues of a small modulus.
HashModulus == 64

Workers == 1..NumWorkers

\* ------------------------------------------------------------ input domains

PlayerNames == {"p1", "p2"}
DemonNames == {"d1", "d2", "d3", "dx"}
Progresses == {40, 60, 100, 101}
NoVideo == "none"
RawVideos == {NoVideo, "u1", "bad"}
Statuses == {"Submitted", "Approved", "Rejected"}

\* Option and PatchField: None / Absent is the empty sequence, Some(v) is <<v>>.
None == << >>
Some(v) == <<v>>
IsSome(o) == Len(o) = 1
Unwrap(o) == o[1]

\* Permissions flags of the list team and of the user administration.
ListFlags == {"ListModerator", "ListAdministrator"}
UserFlags == {"Moderator", "Administrator"}

NoPlayer == [id |-> 0, name |-> "", banned |-> FALSE]
NoDemon == [name |-> "", position |-> 0, requirement |-> 0, video |-> NoVideo,
            verifier |-> 0, publisher |-> 0]
NoUser == [id |-> 0, name |-> "", password |-> "", display_name |-> "",
           youtube_channel |-> "", permissions |-> {}]
NoPatchUser == [display_name |-> None, permissions |-> None]
NoPatchDemon == [name |-> None, position |-> None, video |-> None,
                 requirement |-> None, verifier |-> None, publisher |-> None]
NoContext == [kind |-> "", user |-> None, if_match |-> None]
NoRecord == [id |-> 0, progress |-> 0, video |-> NoVideo, status |-> "",
             player |-> 0, submitter |-> 0, demon |-> ""]
NoSubmitter == [id |-> 0, banned |-> FALSE]
NoToken == [wellformed |-> FALSE, id |-> 0, key |-> ""]
NoAuth == [kind |-> "Unset", username |-> "", password |-> "", token |-> NoToken]
NoSubmission == [progress |-> 0, player |-> "", demon |-> "", video |-> NoVideo,
                 verify_only |-> FALSE]

\* ------------------------------------------------------------------- state

VARIABLES
    players,        \* table players: rows [id, name, banned]
    demons,         \* table demons: rows [name, position, requirement]
    records,        \* table records
    users,          \* table members: rows of User
    submitters,     \* table submitters: rows [id, ip, banned]
    nextPlayerId,   \* serial of players.id
    nextRecordId,   \* serial of records.id
    active,         \* the workers that take messages in this behaviour
    pc,             \* pc[w]: the statement worker w executes next
    msg,            \* msg[w]: the message worker w is handling
    loc,            \* loc[w]: the local variables of the handler
    result,         \* result[w]: the Result the handler returned
    held,           \* held[w]: pooled connections worker w has checked out
    trace,          \* trace[w]: what the handler did so far, in order
    pre,            \* pre[w]: the store when worker w took its message
    ncmds           \* messages accepted so far

store == <<players, demons, records, users, submitters, nextPlayerId, nextRecordId>>
vars == <<players, demons, records, users, submitters, nextPlayerId, nextRecordId,
          active, pc, msg, loc, result, held, trace, pre, ncmds>>

Snapshot == [players |-> players, demons |-> demons, records |-> records,
             users |-> users, submitters |-> submitters]

\* ----------------------------------------------------------------- results

\* Result<T>: tag is "Ok", "OkNone" or the PointercrateError variant; id,
\* status and requirement carry the payload of the variant.
Res(tag, id, status, requirement) ==
    [tag |-> tag, id |-> id, status |-> status, requirement |-> requirement,
     required |-> {}, page |-> {}, header |-> << >>]
NoResult == Res("", 0, "", 0)
Err(tag) == Res(tag, 0, "", 0)
OkSome(id) == Res("Ok", id, "", 0)
OkNone == Res("OkNone", 0, "", 0)
SubmissionExists(status, existing) == Res("SubmissionExists", existing, status, 0)
InvalidProgress(requirement) == Res("InvalidProgress", 0, "", requirement)
ModelNotFound(model) == Res("ModelNotFound", 0, model, 0)
MissingPermissions(required) ==
    [Res("MissingPermissions", 0, "", 0) EXCEPT !.required = required]

IsErr(r) == r.tag \notin {"", "Ok", "OkNone"}

\* ------------------------------------------------------------ collaborators

\* video::validate: the canonical form of a video reference, or an error.
VideoValid(raw) == raw # "bad"
VideoCanonical(raw) == IF raw = "u1" THEN "c1" ELSE raw

\* Record::get_existing / Record::by_player_and_demon: the rows a duplicate
\* lookup matches.
ExistingRecords(recs, player, demon, video) ==
    IF video # NoVideo
    THEN {r \in recs : (r.player = player /\ r.demon = demon) \/ r.video = video}
    ELSE {r \in recs : r.player = player /\ r.demon = demon}

\* ------------------------------------------------------------------- init

DemonRow(n, pos) ==
    [name |-> n, position |-> pos, requirement |-> 50, video |-> NoVideo,
     verifier |-> 1, publisher |-> 1]
DemonRows == {DemonRow("d1", 1), DemonRow("d2", 2), DemonRow("d3", 3)}

UserRow(id, n, perms) ==
    [id |-> id, name |-> n, password |-> "password-1", display_name |-> "n1",
     youtube_channel |-> "yt1", permissions |-> perms]
UserRows == {UserRow(1, "user1", {}), UserRow(2, "user2", {"Moderator"})}

SubmitterRow(id, ip, b) == [id |-> id, ip |-> ip, banned |-> b]

\* Stores the program can be in when a message arrives: no record, or one
\* record of player 1 on demon d1 in any status (statuses other than
\* Submitted are set by list moderators), or an Approved record together with
\* the Submitted record a later, higher submission left beside it.
InitRecord(id, pr, v, st) ==
    [id |-> id, progress |-> pr, video |-> v, status |-> st, player |-> 1,
     submitter |-> 1, demon |-> "d1"]
InitRecordSets ==
    {{}} \cup
    {{InitRecord(1, pr, v, st)} :
        pr \in {60, 100}, v \in {NoVideo, "c1"}, st \in Statuses} \cup
    {{InitRecord(1, 60, NoVideo, "Approved"), InitRecord(2, 100, NoVideo, "Submitted")}}

NoSnapshot == [players |-> {}, demons |-> {}, records |-> {}, users |-> {},
               submitters |-> {}]
NoMsg == [cmd |-> "", sub |-> NoSubmission, submitter |-> NoSubmitter, name |-> "",
          actor |-> {}, user |-> NoUser, upatch |-> NoPatchUser,
          demon |-> NoDemon, dpatch |-> NoPatchDemon, ctx |-> NoContext,
          required |-> {}, seq |-> 0, auth |-> NoAuth, id |-> 0,
          mepatch |-> [password |-> None, display_name |-> None,
                       youtube_channel |-> None],
          reg |-> [name |-> "", password |-> ""],
          page |-> [name |-> None, after |-> None, limit |-> 0]]
NoLoc == [player |-> NoPlayer, demon |-> NoDemon, video |-> NoVideo,
          found |-> NoRecord, user |-> NoUser,
          cursors |-> [first |-> None, last |-> None, next |-> None,
                       prev |-> None],
          tx |-> {}]

InitWorkers ==
    /\ pc = [w \in active |-> "idle"]
    /\ msg = [w \in active |-> NoMsg]
    /\ loc = [w \in active |-> NoLoc]
    /\ result = [w \in active |-> NoResult]
    /\ held = [w \in active |-> 0]
    /\ trace = [w \in active |-> << >>]
    /\ pre = [w \in active |-> NoSnapshot]
    /\ ncmds = 0

InitStore ==
    /\ \E b \in BOOLEAN : players = {[id |-> 1, name |-> "p1", banned |-> b]}
    /\ demons = DemonRows
    /\ records \in InitRecordSets
    /\ users = UserRows
    /\ \E b \in BOOLEAN : submitters = {SubmitterRow(1, "ip1", b)}
    /\ nextPlayerId = 2
    /\ nextRecordId = 3

\* One worker takes messages: the commands run one after the other.
Init == InitStore /\ active = {1} /\ InitWorkers

\* ------------------------------------------------------- handler plumbing

\* The handler returns r to the caller of the actor; its pooled connection,
\* if any, is dropped.
Return(w, r) ==
    /\ pc' = [pc EXCEPT ![w] = "done"]
    /\ result' = [result EXCEPT ![w] = r]
    /\ held' = [held EXCEPT ![w] = 0]

\* The handler goes on with statement l, holding h pooled connections.
Goto(w, l, h) ==
    /\ pc' = [pc EXCEPT ![w] = l]
    /\ result' = result
    /\ held' = [held EXCEPT ![w] = h]

\* self.handle(message, ctx): the handler calls the handler of another
\* message on its own worker and goes on with what it returns; nothing is
\* sent to the mailbox. l is the first statement of the handler called.
SubDispatch_ThroughMailbox(w, l) ==
    /\ \E v \in active \ {w} : pc[v] = "idle"
    /\ Goto(w, l, 0)
SubDispatch(w, l) == Goto(w, l, 0)

Log(w, events) == trace' = [trace EXCEPT ![w] = @ \o events]

\* An idle worker takes message m off the mailbox and starts its handler at
\* statement start, holding h pooled connections. Every worker of the
\* behaviour takes up to MaxCommands messages on average; seq is the place
\* of the message in the order the mailbox hands the messages out.
Accept(w, m, start, h) ==
    /\ w \in active
    /\ pc[w] = "idle"
    /\ ncmds < MaxCommands * Cardinality(active)
    /\ ncmds' = ncmds + 1
    /\ msg' = [msg EXCEPT ![w] = [m EXCEPT !.seq = ncmds + 1]]
    /\ loc' = [loc EXCEPT ![w] = NoLoc]
    /\ trace' = [trace EXCEPT ![w] = << >>]
    /\ pre' = [pre EXCEPT ![w] = Snapshot]
    /\ pc' = [pc EXCEPT ![w] = start]
    /\ held' = [held EXCEPT ![w] = h]
    /\ result' = [result EXCEPT ![w] = NoResult]
    /\ UNCHANGED <<store, active>>

\* The result is sent back to the caller and the worker waits for its next
\* message; nothing of the finished handler is kept.
Reply(w) ==
    /\ pc[w] = "done"
    /\ pc' = [pc EXCEPT ![w] = "idle"]
    /\ msg' = [msg EXCEPT ![w] = NoMsg]
    /\ loc' = [loc EXCEPT ![w] = NoLoc]
    /\ result' = [result EXCEPT ![w] = NoResult]
    /\ trace' = [trace EXCEPT ![w] = << >>]
    /\ pre' = [pre EXCEPT ![w] = NoSnapshot]
    /\ held' = [held EXCEPT ![w] = 0]
    /\ UNCHANGED <<store, active, ncmds>>

\* ----------------------------------------------------------- PlayerByName

\* The name a PlayerByName handler resolves: its own message, or the player
\* of the submission when ResolveSubmissionData dispatches to it.
PlayerNameOf(m) == IF m.cmd = "PlayerByName" THEN m.name ELSE m.sub.player

\* PlayerByName returns r (with the player p): to the caller of the actor, or
\* into ResolveSubmissionData, which propagates an error with `?` and
\* otherwise goes on with DemonByName.
PlayerByNameReturn(w, r, p) ==
    IF msg[w].cmd = "PlayerByName" \/ IsErr(r)
    THEN Return(w, r) /\ loc' = [loc EXCEPT ![w].player = p]
    ELSE SubDispatch(w, "dbn_query") /\ loc' = [loc EXCEPT ![w].player = p]

\* Player::by_name(&msg.0): the rows the query selects.
PlayersByName_None(ps, name) == {}
PlayersByName(ps, name) == {p \in ps : p.name = name}

\* pool.get() and Player::by_name(..).first(connection)
PlayerByName_Query(w) ==
    /\ pc[w] = "pbn_query"
    /\ \E got \in {"connection", "no_connection", "query_error"} :
        IF got = "no_connection"
        THEN /\ Log(w, <<"PlayerByName", "connect_failed">>)
             /\ PlayerByNameReturn(w, Err("DatabaseConnectionError"), NoPlayer)
        ELSE IF got = "query_error"
        THEN /\ Log(w, <<"PlayerByName", "connect", "read_failed">>)
             /\ PlayerByNameReturn(w, Err("DatabaseError"), NoPlayer)
        ELSE /\ Log(w, <<"PlayerByName", "connect", "read_players">>)
             /\ LET found == PlayersByName(players, PlayerNameOf(msg[w])) IN
                IF found # {}
                THEN \E p \in found : PlayerByNameReturn(w, OkSome(p.id), p)
                ELSE Goto(w, "pbn_insert", 1) /\ loc' = loc
    /\ UNCHANGED <<store, active, msg, pre, ncmds>>

\* Err(Error::NotFound) => Player::insert(connection, &msg.0)
PlayerByName_Insert(w) ==
    /\ pc[w] = "pbn_insert"
    /\ LET p == [id |-> nextPlayerId, name |-> PlayerNameOf(msg[w]), banned |-> FALSE] IN
        \E refused \in BOOLEAN :
            IF refused
            THEN /\ UNCHANGED <<players, nextPlayerId>>
                 /\ Log(w, <<"insert_failed">>)
                 /\ PlayerByNameReturn(w, Err("DatabaseError"), NoPlayer)
            ELSE /\ players' = players \cup {p}
                 /\ nextPlayerId' = nextPlayerId + 1
                 /\ Log(w, <<"insert_player">>)
                 /\ PlayerByNameReturn(w, OkSome(p.id), p)
    /\ UNCHANGED <<demons, records, users, submitters, nextRecordId, active, msg,
                   pre, ncmds>>

\* ------------------------------------------------------------ DemonByName

DemonNameOf(m) == IF m.cmd = "DemonByName" THEN m.name ELSE m.sub.demon

\* DemonByName returns: to the caller of the actor, or through
\* ResolveSubmissionData into ProcessSubmission.
DemonByNameReturn(w, r, d) ==
    IF msg[w].cmd = "DemonByName" \/ IsErr(r)
    THEN Return(w, r) /\ loc' = [loc EXCEPT ![w].demon = d]
    ELSE Goto(w, "ps_checks", 0) /\ loc' = [loc EXCEPT ![w].demon = d]

\* pool.get() and Demon::by_name(..).first(connection)
DemonByName_Query(w) ==
    /\ pc[w] = "dbn_query"
    /\ \E got \in {"connection", "no_connection", "query_error"} :
        IF got = "no_connection"
        THEN /\ Log(w, <<"DemonByName", "connect_failed">>)
             /\ DemonByNameReturn(w, Err("DatabaseConnectionError"), NoDemon)
        ELSE IF got = "query_error"
        THEN /\ Log(w, <<"DemonByName", "connect", "read_failed">>)
             /\ DemonByNameReturn(w, Err("DatabaseError"), NoDemon)
        ELSE /\ Log(w, <<"DemonByName", "connect", "read_demons">>)
             /\ LET found == {d \in demons : d.name = DemonNameOf(msg[w])} IN
                IF found # {}
                THEN \E d \in found : DemonByNameReturn(w, Res("Ok", 0, d.name, 0), d)
                ELSE DemonByNameReturn(w, ModelNotFound("Demon"), NoDemon)
    /\ UNCHANGED <<store, active, msg, pre, ncmds>>

\* ------------------------------------------------------ ProcessSubmission

\* if msg.1.banned
SubmitterBanned_NoCheck(submitter) == FALSE
SubmitterBanned(submitter) == submitter.banned

\* The ban check of the submitter.
PS_BanCheck(w) ==
    /\ pc[w] = "ps_ban"
    /\ Log(w, <<"ban_check">>)
    /\ IF SubmitterBanned(msg[w].submitter)
       THEN Return(w, Err("BannedFromSubmissions"))
       ELSE Goto(w, "ps_video", 0)
    /\ UNCHANGED <<store, active, msg, loc, pre, ncmds>>

\* match video { Some(ref video) => Some(video::validate(video)?), None => None }
VideoChecked_Never(video) == FALSE
VideoChecked(video) == video # NoVideo

\* video::validate(video)? on a submission that has a video.
PS_ValidateVideo(w) ==
    /\ pc[w] = "ps_video"
    /\ LET raw == msg[w].sub.video IN
        IF ~VideoChecked(raw)
        THEN SubDispatch(w, "pbn_query") /\ loc' = loc /\ trace' = trace
        ELSE /\ Log(w, <<"video_validate">>)
             /\ IF VideoValid(raw)
                THEN /\ SubDispatch(w, "pbn_query")
                     /\ loc' = [loc EXCEPT ![w].video = VideoCanonical(raw)]
                ELSE Return(w, Err("InvalidVideo")) /\ loc' = loc
    /\ UNCHANGED <<store, active, msg, pre, ncmds>>

\* Mutants of ValidityError: the rule of the extended list left out; the
\* progress checked before the position of the demon; the ban of the player
\* not checked.
ValidityError_NoExtendedRule(player, demon, progress) ==
    IF player.banned THEN Err("PlayerBanned")
    ELSE IF demon.position > EXTENDED_LIST_SIZE THEN Err("SubmitLegacy")
    ELSE IF progress > 100 \/ progress < demon.requirement
         THEN InvalidProgress(demon.requirement)
    ELSE NoResult
ValidityError_ProgressFirst(player, demon, progress) ==
    IF player.banned THEN Err("PlayerBanned")
    ELSE IF progress > 100 \/ progress < demon.requirement
         THEN InvalidProgress(demon.requirement)
    ELSE IF demon.position > EXTENDED_LIST_SIZE THEN Err("SubmitLegacy")
    ELSE IF demon.position > LIST_SIZE /\ progress # 100 THEN Err("Non100Extended")
    ELSE NoResult
ValidityError_NoPlayerBan(player, demon, progress) ==
    IF demon.position > EXTENDED_LIST_SIZE THEN Err("SubmitLegacy")
    ELSE IF demon.position > LIST_SIZE /\ progress # 100 THEN Err("Non100Extended")
    ELSE IF progress > 100 \/ progress < demon.requirement
         THEN InvalidProgress(demon.requirement)
    ELSE NoResult

\* The checks of the resolved player and demon and of the progress, in the
\* order of the code: the first that fails is the error, NoResult if none.
ValidityError(player, demon, progress) ==
    IF player.banned THEN Err("PlayerBanned")
    ELSE IF demon.position > EXTENDED_LIST_SIZE THEN Err("SubmitLegacy")
    ELSE IF demon.position > LIST_SIZE /\ progress # 100 THEN Err("Non100Extended")
    ELSE IF progress > 100 \/ progress < demon.requirement
         THEN InvalidProgress(demon.requirement)
    ELSE NoResult

PS_Checks(w) ==
    /\ pc[w] = "ps_checks"
    /\ LET e == ValidityError(loc[w].player, loc[w].demon, msg[w].sub.progress) IN
        IF IsErr(e) THEN Return(w, e) ELSE Goto(w, "ps_lookup", 0)
    /\ UNCHANGED <<store, active, msg, loc, trace, pre, ncmds>>

\* record.status() != RecordStatus::Rejected && record.progress() < progress
Supersedes_AnyStatus(record, progress) == record.progress < progress
Supersedes(record, progress) ==
    record.status # "Rejected" /\ record.progress < progress

\* if verify_only { return Ok(None) }
StopsBeforeWrite_Never(verify_only) == FALSE
StopsBeforeWrite(verify_only) == verify_only

\* if record.status() == RecordStatus::Submitted: the old record is deleted.
DeletesOld_Always(record) == TRUE
DeletesOld_Never(record) == FALSE
DeletesOld(record) == record.status = "Submitted"

\* pool.get(), the lookup of an existing record and the match on it, up to
\* the first write.
PS_Lookup(w) ==
    /\ pc[w] = "ps_lookup"
    /\ \E got \in {"connection", "no_connection", "query_error"} :
        IF got = "no_connection"
        THEN /\ Log(w, <<"connect_failed">>)
             /\ Return(w, Err("DatabaseConnectionError"))
             /\ loc' = loc
        ELSE IF got = "query_error"
        THEN /\ Log(w, <<"connect", "read_failed">>)
             /\ Return(w, Err("DatabaseError"))
             /\ loc' = loc
        ELSE /\ Log(w, <<"connect", "read_records">>)
             /\ LET sub == msg[w].sub
                    found == ExistingRecords(records, loc[w].player.id,
                                             loc[w].demon.name, loc[w].video)
                IN IF found = {}
                   THEN /\ loc' = loc
                        /\ IF StopsBeforeWrite(sub.verify_only)
                           THEN Return(w, OkNone)
                           ELSE Goto(w, "ps_insert", 1)
                   ELSE \E r \in found :
                        /\ loc' = [loc EXCEPT ![w].found = r]
                        /\ IF Supersedes(r, sub.progress)
                           THEN IF StopsBeforeWrite(sub.verify_only)
                                THEN Return(w, OkNone)
                                ELSE IF DeletesOld(r)
                                     THEN Goto(w, "ps_delete", 1)
                                     ELSE Goto(w, "ps_insert", 1)
                           ELSE Return(w, SubmissionExists(r.status, r.id))
    /\ UNCHANGED <<store, active, msg, pre, ncmds>>

\* record.delete(connection)
PS_Delete(w) ==
    /\ pc[w] = "ps_delete"
    /\ \E failed \in BOOLEAN :
        IF failed
        THEN /\ records' = records
             /\ Log(w, <<"delete_record_failed">>)
             /\ Return(w, Err("DatabaseError"))
        ELSE /\ records' = {r \in records : r.id # loc[w].found.id}
             /\ Log(w, <<"delete_record">>)
             /\ Goto(w, "ps_insert", 1)
    /\ UNCHANGED <<players, demons, users, submitters, nextPlayerId, nextRecordId,
                   active, msg, loc, pre, ncmds>>

\* Record::insert(connection, progress, video_ref, player.id, msg.1.id,
\* &demon.name) and Ok(Some(Record {..}))
PS_Insert(w) ==
    /\ pc[w] = "ps_insert"
    /\ \E failed \in BOOLEAN :
        IF failed
        THEN /\ UNCHANGED <<records, nextRecordId>>
             /\ Log(w, <<"insert_failed">>)
             /\ Return(w, Err("DatabaseError"))
        ELSE /\ records' = records \cup
                  {[id |-> nextRecordId, progress |-> msg[w].sub.progress,
                    video |-> loc[w].video, status |-> "Submitted",
                    player |-> loc[w].player.id, submitter |-> msg[w].submitter.id,
                    demon |-> loc[w].demon.name]}
             /\ nextRecordId' = nextRecordId + 1
             /\ Log(w, <<"insert_record">>)
             /\ Return(w, OkSome(nextRecordId))
    /\ UNCHANGED <<players, demons, users, submitters, nextPlayerId, active, msg,
                   loc, pre, ncmds>>

\* ------------------------------------------- RecordById, DeleteRecordById

\* Handler<RecordById>: Record::by_id(msg.0).first(connection).
RecordById_Query(w) ==
    /\ pc[w] = "rec_run"
    /\ msg[w].cmd = "RecordById"
    /\ \E got \in {"connection", "no_connection", "query_error"} :
        IF got = "no_connection"
        THEN /\ Log(w, <<"connect_failed">>)
             /\ Return(w, Err("DatabaseConnectionError"))
        ELSE IF got = "query_error"
        THEN /\ Log(w, <<"connect", "read_failed">>)
             /\ Return(w, Err("DatabaseError"))
        ELSE /\ Log(w, <<"connect", "read_records">>)
             /\ LET found == {r \in records : r.id = msg[w].id} IN
                IF found # {}
                THEN \E r \in found : Return(w, OkSome(r.id))
                ELSE Return(w, ModelNotFound("Record"))
    /\ UNCHANGED <<store, active, msg, loc, pre, ncmds>>

\* Handler<DeleteRecordById>: self.0.get().map_err(..).and_then(|connection|
\* Record::delete_by_id(&connection, msg.0).map_err(..)). The DELETE removes
\* the rows with that id, none when there is no such record.
DeleteRecordById_Run(w) ==
    /\ pc[w] = "rec_run"
    /\ msg[w].cmd = "DeleteRecordById"
    /\ \E got \in {"connection", "no_connection", "query_error"} :
        IF got = "no_connection"
        THEN /\ records' = records
             /\ Log(w, <<"connect_failed">>)
             /\ Return(w, Err("DatabaseConnectionError"))
        ELSE IF got = "query_error"
        THEN /\ records' = records
             /\ Log(w, <<"connect", "delete_record_failed">>)
             /\ Return(w, Err("DatabaseError"))
        ELSE /\ records' = {r \in records : r.id # msg[w].id}
             /\ Log(w, <<"connect", "delete_record">>)
             /\ Return(w, Res("Ok", 0, "", 0))
    /\ UNCHANGED <<players, demons, users, submitters, nextPlayerId, nextRecordId,
                   active, msg, loc, pre, ncmds>>

\* ------------------------------------------------------------ Patch<T, P>

\* Patch::required_permissions of a PatchUser: the union of what its present
\* fields require.
RequiredPermissions(upatch) ==
    {f \in {"Moderator"} : IsSome(upatch.display_name)}
    \cup {f \in {"Administrator"} : IsSome(upatch.permissions)}

\* msg.0.permissions() & required != required is the refusal; permissions are
\* bit sets and & is their intersection.
PatchAuthorized_Always(granted, required) == TRUE
PatchAuthorized(granted, required) == (granted \cap required) = required

\* Patchable::apply_patch of a User: the validator of each present field, then
\* the assignment to the in-memory object.
PatchUserError(upatch) ==
    IF IsSome(upatch.display_name) /\ Unwrap(upatch.display_name) = " "
    THEN Err("InvalidDisplayName")
    ELSE NoResult
PatchedUser(user, upatch) ==
    [user EXCEPT
        !.display_name =
            IF IsSome(upatch.display_name) THEN Unwrap(upatch.display_name) ELSE @,
        !.permissions =
            IF IsSome(upatch.permissions) THEN Unwrap(upatch.permissions) ELSE @]

\* let required = ..; if msg.0.permissions() & required != required { return Err }
Patch_Authorize(w) ==
    /\ pc[w] = "pa_auth"
    /\ Log(w, <<"check_permissions">>)
    /\ LET required == RequiredPermissions(msg[w].upatch) IN
        IF PatchAuthorized(msg[w].actor, required)
        THEN Goto(w, "pa_apply", 0)
        ELSE Return(w, MissingPermissions(required))
    /\ UNCHANGED <<store, active, msg, loc, pre, ncmds>>

\* msg.1.apply_patch(msg.2)? and pool.get()
Patch_Apply(w) ==
    /\ pc[w] = "pa_apply"
    /\ LET e == PatchUserError(msg[w].upatch) IN
        IF IsErr(e)
        THEN Log(w, <<"apply_patch">>) /\ Return(w, e) /\ loc' = loc
        ELSE /\ loc' = [loc EXCEPT ![w].user = PatchedUser(msg[w].user, msg[w].upatch)]
             /\ \E ok \in BOOLEAN :
                 IF ok
                 THEN Log(w, <<"apply_patch", "connect">>) /\ Goto(w, "pa_update", 1)
                 ELSE /\ Log(w, <<"apply_patch", "connect_failed">>)
                      /\ Return(w, Err("DatabaseConnectionError"))
    /\ UNCHANGED <<store, active, msg, pre, ncmds>>

\* msg.1.update_database(connection)? and Ok(msg.1)
Patch_Update(w) ==
    /\ pc[w] = "pa_update"
    /\ \E failed \in BOOLEAN :
        IF failed
        THEN /\ users' = users
             /\ Log(w, <<"update_failed">>)
             /\ Return(w, Err("DatabaseError"))
        ELSE /\ users' = {IF u.id = loc[w].user.id THEN loc[w].user ELSE u
                           : u \in users}
             /\ Log(w, <<"update_user">>)
             /\ Return(w, OkSome(loc[w].user.id))
    /\ UNCHANGED <<players, demons, records, submitters, nextPlayerId,
                   nextRecordId, active, msg, loc, pre, ncmds>>

\* --------------------------------------------------------- RequestContext

\* PermissionsSet::has_any
HasAny_All(granted, required) == required \subseteq granted
HasAny(granted, required) == granted \cap required # {}

\* RequestContext::check_permissions: NoResult stands for Ok(()).
CheckPermissions_AnonymousPasses(ctx, required) ==
    IF required = {} \/ ctx.kind # "External" \/ ~IsSome(ctx.user) THEN NoResult
    ELSE IF ~HasAny(Unwrap(ctx.user), required) THEN MissingPermissions(required)
    ELSE NoResult
CheckPermissions(ctx, required) ==
    IF required = {} THEN NoResult
    ELSE IF ctx.kind = "External" /\ ~IsSome(ctx.user) THEN Err("Unauthorized")
    ELSE IF ctx.kind = "External" /\ ~HasAny(Unwrap(ctx.user), required)
         THEN MissingPermissions(required)
    ELSE NoResult

\* #[derive(Hash)] of a Demon fed to DefaultHasher: a number computed from the
\* fields of the demon.
NameCode(n) == CASE n = "d1" -> 1 [] n = "d2" -> 2 [] n = "d3" -> 3 [] OTHER -> 5
DemonHash(d) ==
    (NameCode(d.name) * 31 + d.position * 7 + d.requirement * 3 + d.verifier
     + d.publisher + (IF d.video = NoVideo THEN 0 ELSE 11)) % HashModulus

\* RequestContext::check_if_match with IfMatch::met
CheckIfMatch_NoCompare(ctx, h) ==
    IF ctx.kind = "External" /\ ~IsSome(ctx.if_match)
    THEN Err("InvalidState")
    ELSE NoResult
CheckIfMatch_SilentPass(ctx, h) ==
    IF ctx.kind = "External" /\ IsSome(ctx.if_match) /\ Unwrap(ctx.if_match) # h
    THEN Err("PreconditionFailed")
    ELSE NoResult
CheckIfMatch(ctx, h) ==
    IF ctx.kind = "External" /\ IsSome(ctx.if_match)
    THEN IF Unwrap(ctx.if_match) = h THEN NoResult ELSE Err("PreconditionFailed")
    ELSE IF ctx.kind = "External" THEN Err("InvalidState")
    ELSE NoResult

\* ------------------------------------------------------------ Demon::patch

\* perms!(ListModerator or ListAdministrator)
DemonPatchPermissions == {"ListModerator", "ListAdministrator"}

\* validate_db!(.. Demon::validate_name[name], Demon::validate_position[position])
\* and validate_nullable!(.. Demon::validate_video[video]): the validator of
\* one field of the patch, on the rows ds it reads.
PatchDemonError(ds, dpatch, field) ==
    CASE field = "name" ->
           IF IsSome(dpatch.name) /\ \E d \in ds : d.name = Unwrap(dpatch.name)
           THEN Err("DemonExists") ELSE NoResult
      [] field = "position" ->
           IF /\ IsSome(dpatch.position)
              /\ (Unwrap(dpatch.position) < 1
                    \/ Unwrap(dpatch.position) > Cardinality(ds))
           THEN Err("InvalidPosition") ELSE NoResult
      [] OTHER ->
           IF IsSome(dpatch.video) /\ ~VideoValid(Unwrap(dpatch.video))
           THEN Err("InvalidVideo") ELSE NoResult

\* patch!(self, patch: name, video, requirement)
PatchedDemon(d, dpatch) ==
    [d EXCEPT
        !.name = IF IsSome(dpatch.name) THEN Unwrap(dpatch.name) ELSE @,
        !.video = IF IsSome(dpatch.video) THEN VideoCanonical(Unwrap(dpatch.video)) ELSE @,
        !.requirement = IF IsSome(dpatch.requirement) THEN Unwrap(dpatch.requirement) ELSE @]

\* Demon::mv, its first statement: the demons between the old and the new
\* position move by one.
MvShift(ds, me, to) ==
    {IF d.position >= to /\ d.position < me.position
     THEN [d EXCEPT !.position = @ + 1]
     ELSE IF d.position > me.position /\ d.position <= to
          THEN [d EXCEPT !.position = @ - 1]
     ELSE d : d \in ds}

\* Demon::mv, its second statement: the demon of that name gets the new
\* position.
MvSetPosition(ds, me, to) ==
    {IF d.name = me.name THEN [d EXCEPT !.position = to] ELSE d : d \in ds}

\* diesel::update(demons::table).filter(demons::name.eq(&self.name)).set(..)
UpdateDemon(ds, me) ==
    {IF d.name = me.name
     THEN [d EXCEPT !.video = me.video, !.requirement = me.requirement,
                    !.verifier = me.verifier, !.publisher = me.publisher]
     ELSE d : d \in ds}

\* ctx.check_permissions(..)? and ctx.check_if_match(&self)?
DP_Authorize(w) ==
    /\ pc[w] = "dp_auth"
    /\ LET e1 == CheckPermissions(msg[w].ctx, DemonPatchPermissions)
           e2 == CheckIfMatch(msg[w].ctx, DemonHash(msg[w].demon))
       IN IF IsErr(e1)
          THEN Log(w, <<"check_permissions">>) /\ Return(w, e1)
          ELSE /\ Log(w, <<"check_permissions", "check_if_match">>)
               /\ IF IsErr(e2) THEN Return(w, e2) ELSE Goto(w, "dp_validate", 1)
    /\ UNCHANGED <<store, active, msg, loc, pre, ncmds>>

\* validate_db! and validate_nullable!: the validators of name, position
\* and video, one after the other, each run when the patch has the field.
\* Those of name and position read the demons through the connection of the
\* context, and the read can fail.
DP_Validate(w) ==
    /\ pc[w] \in {"dp_validate", "dp_validate_position", "dp_validate_video"}
    /\ LET field == CASE pc[w] = "dp_validate" -> "name"
                      [] pc[w] = "dp_validate_position" -> "position"
                      [] OTHER -> "video"
           next == CASE field = "name" -> "dp_validate_position"
                     [] field = "position" -> "dp_validate_video"
                     [] OTHER -> "dp_apply"
           started == IF field = "name" THEN <<"validate">> ELSE << >>
           e == PatchDemonError(demons, msg[w].dpatch, field)
       IN \E failed \in BOOLEAN :
            IF failed
            THEN /\ field # "video" /\ IsSome(msg[w].dpatch[field])
                 /\ Log(w, started \o <<"read_failed">>)
                 /\ Return(w, Err("DatabaseError"))
            ELSE /\ Log(w, started)
                 /\ IF IsErr(e) THEN Return(w, e) ELSE Goto(w, next, 1)
    /\ UNCHANGED <<store, active, msg, loc, pre, ncmds>>

\* patch!(self, patch: name, video, requirement): assignments to self.
DP_Apply(w) ==
    /\ pc[w] = "dp_apply"
    /\ Log(w, <<"apply_patch">>)
    /\ loc' = [loc EXCEPT ![w].demon = PatchedDemon(msg[w].demon, msg[w].dpatch)]
    /\ Goto(w, "dp_verifier", 1)
    /\ UNCHANGED <<store, active, msg, pre, ncmds>>

\* try_map_patch!(self, patch: map => verifier, map => publisher) with
\* map = |name| EmbeddedPlayer::get(name, ctx): for a field the patch has, the
\* player of that name is read through the connection, and `?` returns an
\* error. EmbeddedPlayer::get is not among the sources: for the name of no
\* player it returns ModelNotFound, or it inserts the player and returns it.
DP_MapPlayer(w) ==
    /\ pc[w] \in {"dp_verifier", "dp_publisher"}
    /\ LET field == IF pc[w] = "dp_verifier" THEN "verifier" ELSE "publisher"
           next == IF pc[w] = "dp_verifier" THEN "dp_publisher" ELSE "dp_begin"
           wanted == msg[w].dpatch[field]
           known == {p \in players : IsSome(wanted) /\ p.name = Unwrap(wanted)}
           assign(id) == [loc EXCEPT ![w].demon[field] = id]
       IN IF ~IsSome(wanted)
          THEN /\ Goto(w, next, 1)
               /\ UNCHANGED <<players, nextPlayerId, loc, trace>>
          ELSE \E got \in {"player", "not_found", "query_error"} :
            CASE got = "query_error" ->
                   /\ Log(w, <<"read_failed">>)
                   /\ Return(w, Err("DatabaseError"))
                   /\ UNCHANGED <<players, nextPlayerId, loc>>
              [] got = "not_found" ->
                   /\ known = {}
                   /\ Log(w, <<"read_players">>)
                   /\ Return(w, ModelNotFound("Player"))
                   /\ UNCHANGED <<players, nextPlayerId, loc>>
              [] got = "player" /\ known # {} ->
                   /\ Log(w, <<"read_players">>)
                   /\ loc' = assign((CHOOSE p \in known : TRUE).id)
                   /\ Goto(w, next, 1)
                   /\ UNCHANGED <<players, nextPlayerId>>
              [] got = "player" /\ known = {} ->
                   /\ Log(w, <<"read_players", "insert_player">>)
                   /\ players' = players \cup
                        {[id |-> nextPlayerId, name |-> Unwrap(wanted),
                          banned |-> FALSE]}
                   /\ nextPlayerId' = nextPlayerId + 1
                   /\ loc' = assign(nextPlayerId)
                   /\ Goto(w, next, 1)
    /\ UNCHANGED <<demons, records, users, submitters, nextRecordId, active,
                   msg, pre, ncmds>>

\* The rows a statement of the open transaction of worker w reads: the
\* committed rows, and in place of them the rows the transaction has written
\* itself. The code sets no isolation level: the transaction runs at the
\* default of the database, READ COMMITTED, where no statement sees what
\* another transaction has written and not committed.
TxView(w) ==
    {d \in demons : \A r \in loc[w].tx : r.name # d.name} \cup loc[w].tx

\* The rows ds after the statement the transaction of worker w is at:
\* the two statements of self.mv(position, connection) and the update of the
\* row.
TxStatement(w, ds) ==
    LET me == loc[w].demon
        to == Unwrap(msg[w].dpatch.position)
    IN  CASE pc[w] = "dp_shift" -> MvShift(ds, me, to)
          [] pc[w] = "dp_set" -> MvSetPosition(ds, me, to)
          [] pc[w] = "dp_update" -> UpdateDemon(ds, me)
          [] OTHER -> ds

\* The names of the rows that statement updates, which it locks until the
\* transaction ends: the rows its WHERE clause selects.
TxLocks(w) ==
    {d.name : d \in TxView(w) \ TxStatement(w, TxView(w))} \cup
    {d.name : d \in {x \in TxView(w) : /\ pc[w] \in {"dp_set", "dp_update"}
                                       /\ x.name = loc[w].demon.name}}

\* The workers with an open transaction that holds the lock of a row the
\* statement of worker w updates: the statement waits until they end.
WaitsFor(w) ==
    {v \in active \ {w} : \E r \in loc[v].tx : r.name \in TxLocks(w)}

\* connection.transaction(move || ..): BEGIN.
DP_Begin(w) ==
    /\ pc[w] = "dp_begin"
    /\ \E failed \in BOOLEAN :
        IF failed
        THEN /\ Log(w, <<"begin_failed">>)
             /\ Return(w, Err("DatabaseError"))
        ELSE /\ Log(w, <<"transaction">>)
             /\ Goto(w, IF IsSome(msg[w].dpatch.position)
                        THEN "dp_shift" ELSE "dp_update", 1)
    /\ UNCHANGED <<store, active, msg, loc, pre, ncmds>>

\* One statement of the closure: if let Some(position) = position {
\* self.mv(position, connection)? } and diesel::update(..).execute(connection)?
\* The statement runs when no other transaction holds a lock it needs, and
\* what it writes stays with the transaction. When the statement fails, or
\* the database ends a deadlock by failing it (the transaction it waits for
\* waits for this one), `?` returns the error and the transaction is rolled
\* back.
DP_Statement(w) ==
    /\ pc[w] \in {"dp_shift", "dp_set", "dp_update"}
    /\ LET after == TxStatement(w, TxView(w))
           next == CASE pc[w] = "dp_shift" -> "dp_set"
                     [] pc[w] = "dp_set" -> "dp_update"
                     [] OTHER -> "dp_commit"
           event == CASE pc[w] = "dp_shift" -> "mv"
                      [] pc[w] = "dp_set" -> "set_position"
                      [] OTHER -> "update_demon"
       IN \E outcome \in {"done", "failed", "deadlock"} :
            CASE outcome = "done" ->
                   /\ WaitsFor(w) = {}
                   /\ loc' = [loc EXCEPT ![w].tx =
                                {d \in after : d.name \in TxLocks(w)} \cup
                                {r \in @ : r.name \notin TxLocks(w)}]
                   /\ Log(w, <<event>>)
                   /\ Goto(w, next, 1)
              [] outcome = "failed" ->
                   /\ WaitsFor(w) = {}
                   /\ loc' = [loc EXCEPT ![w].tx = {}]
                   /\ Log(w, <<"update_failed", "rollback">>)
                   /\ Return(w, Err("DatabaseError"))
              [] outcome = "deadlock" ->
                   /\ \E v \in WaitsFor(w) : w \in WaitsFor(v)
                   /\ loc' = [loc EXCEPT ![w].tx = {}]
                   /\ Log(w, <<"deadlock", "rollback">>)
                   /\ Return(w, Err("DatabaseError"))
    /\ UNCHANGED <<store, active, msg, pre, ncmds>>

\* Ok(self) from the closure: COMMIT. The rows the transaction wrote replace
\* the committed ones, all at once; when the commit fails none does.
DP_Commit(w) ==
    /\ pc[w] = "dp_commit"
    /\ \E failed \in BOOLEAN :
        IF failed
        THEN /\ demons' = demons
             /\ Log(w, <<"commit_failed", "rollback">>)
             /\ Return(w, Err("DatabaseError"))
        ELSE /\ demons' = TxView(w)
             /\ Log(w, <<"commit">>)
             /\ Return(w, Res("Ok", 0, loc[w].demon.name, 0))
    /\ loc' = [loc EXCEPT ![w].tx = {}]
    /\ UNCHANGED <<players, records, users, submitters, nextPlayerId,
                   nextRecordId, active, msg, pre, ncmds>>

\* ---------------------------------------------------------------- messages

Submissions ==
    [progress : Progresses, player : PlayerNames, demon : DemonNames,
     video : RawVideos, verify_only : BOOLEAN]
\* The Submitter of a submission is the row SubmitterByIp returned to the
\* caller.
ReceiveProcessSubmission(w) ==
    \E s \in Submissions,
       by \in {[id |-> r.id, banned |-> r.banned] : r \in submitters} :
        Accept(w, [NoMsg EXCEPT !.cmd = "ProcessSubmission", !.sub = s,
                                !.submitter = by], "ps_ban", 0)

ReceivePlayerByName(w) ==
    \E n \in PlayerNames :
        Accept(w, [NoMsg EXCEPT !.cmd = "PlayerByName", !.name = n], "pbn_query", 0)

ReceiveDemonByName(w) ==
    \E n \in DemonNames :
        Accept(w, [NoMsg EXCEPT !.cmd = "DemonByName", !.name = n], "dbn_query", 0)

\* RecordById(id) and DeleteRecordById(id): ids of records that exist and
\* one that does not.
ReceiveRecordCommand(w) ==
    \E c \in {"RecordById", "DeleteRecordById"}, i \in 1 .. nextRecordId :
        Accept(w, [NoMsg EXCEPT !.cmd = c, !.id = i], "rec_run", 0)

Next ==
    \E w \in active :
        \/ ReceiveProcessSubmission(w)
        \/ ReceivePlayerByName(w)
        \/ ReceiveDemonByName(w)
        \/ ReceiveRecordCommand(w)
        \/ RecordById_Query(w)
        \/ DeleteRecordById_Run(w)
        \/ PlayerByName_Query(w)
        \/ PlayerByName_Insert(w)
        \/ DemonByName_Query(w)
        \/ PS_BanCheck(w)
        \/ PS_ValidateVideo(w)
        \/ PS_Checks(w)
        \/ PS_Lookup(w)
        \/ PS_Delete(w)
        \/ PS_Insert(w)
        \/ Reply(w)

Spec == Init /\ [][Next]_vars

\* ------------------------------------------------- the patch specification

PatchUsers ==
    [display_name : {None, Some("n2"), Some(" ")},
     permissions : {None, Some({"Moderator"})}]

PatchDemons ==
    [name : {None, Some("d2"), Some("dn")}, position : {None, Some(3)},
     video : {None}, requirement : {None, Some(70)},
     verifier : {None, Some("p2")}, publisher : {None}]

\* The state of demon d a caller read before the requirement of d was
\* raised to what it is now.
EarlierState(d) == [d EXCEPT !.requirement = @ - 10]

\* The contexts a demon d can be patched in: the token of an External context
\* is the hash of d as stored, or a stale one, the hash of an earlier state.
Contexts(d) ==
    {[kind |-> "Internal", user |-> None, if_match |-> None]} \cup
    [kind : {"External"},
     user : {None} \cup {Some(ps) : ps \in SUBSET ListFlags},
     if_match : {None, Some(DemonHash(d)), Some(DemonHash(EarlierState(d)))}]

ReceivePatch(w) ==
    \E granted \in SUBSET UserFlags, target \in users, up \in PatchUsers :
        Accept(w, [NoMsg EXCEPT !.cmd = "Patch", !.actor = granted,
                                !.user = target, !.upatch = up], "pa_auth", 0)

\* Demon::patch runs in a handler that built the RequestContext around its
\* pooled connection.
ReceiveDemonPatch(w) ==
    \E d \in demons, dp \in PatchDemons :
        \E ctx \in Contexts(d) :
            Accept(w, [NoMsg EXCEPT !.cmd = "DemonPatch", !.demon = d,
                                    !.dpatch = dp, !.ctx = ctx], "dp_auth", 1)

InitPatchStore ==
    /\ players = {[id |-> 1, name |-> "p1", banned |-> FALSE]}
    /\ demons = DemonRows
    /\ records = {}
    /\ users = UserRows
    /\ submitters = {SubmitterRow(1, "ip1", FALSE)}
    /\ nextPlayerId = 2
    /\ nextRecordId = 1

InitPatch == InitPatchStore /\ active = {1} /\ InitWorkers

NextPatch ==
    \E w \in active :
        \/ ReceivePatch(w)
        \/ ReceiveDemonPatch(w)
        \/ Patch_Authorize(w)
        \/ Patch_Apply(w)
        \/ Patch_Update(w)
        \/ DP_Authorize(w)
        \/ DP_Validate(w)
        \/ DP_Apply(w)
        \/ DP_MapPlayer(w)
        \/ DP_Begin(w)
        \/ DP_Statement(w)
        \/ DP_Commit(w)
        \/ Reply(w)

SpecPatch == InitPatch /\ [][NextPatch]_vars

\* ------------------------------------------------- UserById, UserByName

\* .map_err(|_| PointercrateError::Unauthorized) on the result of the lookup
\* TokenAuth and BasicAuth dispatch to.
LookupErrorInAuth_Kept(r) == r
LookupErrorInAuth(r) == Err("Unauthorized")

\* UserById returns r (with the user u): to the caller of the actor, or into
\* TokenAuth, which maps every error to Unauthorized and returns it with `?`.
UserByIdReturn(w, r, u) ==
    IF msg[w].cmd = "UserById" THEN Return(w, r) /\ loc' = [loc EXCEPT ![w].user = u]
    ELSE IF IsErr(r) THEN Return(w, LookupErrorInAuth(r)) /\ loc' = loc
    ELSE Goto(w, "ta_validate", 0) /\ loc' = [loc EXCEPT ![w].user = u]

\* pool.get() and User::by_id(msg.0).first(connection); the id is that of the
\* message, or the id claimed by the token when TokenAuth dispatches here.
UserById_Query(w) ==
    /\ pc[w] = "ubi_query"
    /\ \E got \in {"connection", "no_connection", "query_error"} :
        IF got = "no_connection"
        THEN /\ Log(w, <<"UserById", "connect_failed">>)
             /\ UserByIdReturn(w, Err("DatabaseConnectionError"), NoUser)
        ELSE IF got = "query_error"
        THEN /\ Log(w, <<"UserById", "connect", "read_failed">>)
             /\ UserByIdReturn(w, Err("DatabaseError"), NoUser)
        ELSE /\ Log(w, <<"UserById", "connect", "read_users">>)
             /\ LET id == IF msg[w].cmd = "UserById" THEN msg[w].id
                          ELSE msg[w].auth.token.id
                    found == {u \in users : u.id = id} IN
                IF found # {}
                THEN \E u \in found : UserByIdReturn(w, OkSome(u.id), u)
                ELSE UserByIdReturn(w, ModelNotFound("User"), NoUser)
    /\ UNCHANGED <<store, active, msg, pre, ncmds>>

\* BasicAuth returns r: to the caller of the actor, or into Invalidate, which
\* returns an error with `?` and otherwise goes on with PatchCurrentUser.
BasicAuthReturn(w, r) ==
    IF msg[w].cmd = "BasicAuth" \/ IsErr(r) THEN Return(w, r)
    ELSE SubDispatch(w, "pcu_apply")

\* UserByName returns: to the caller of the actor, or into BasicAuth.
UserByNameReturn(w, r, u) ==
    IF msg[w].cmd = "UserByName" THEN Return(w, r) /\ loc' = [loc EXCEPT ![w].user = u]
    ELSE IF IsErr(r) THEN BasicAuthReturn(w, LookupErrorInAuth(r)) /\ loc' = loc
    ELSE Goto(w, "ba_verify", 0) /\ loc' = [loc EXCEPT ![w].user = u]

\* pool.get() and User::by_name(&msg.0).first(connection); the name is that
\* of the message, or the username BasicAuth dispatches here with.
UserByName_Query(w) ==
    /\ pc[w] = "ubn_query"
    /\ \E got \in {"connection", "no_connection", "query_error"} :
        IF got = "no_connection"
        THEN /\ Log(w, <<"UserByName", "connect_failed">>)
             /\ UserByNameReturn(w, Err("DatabaseConnectionError"), NoUser)
        ELSE IF got = "query_error"
        THEN /\ Log(w, <<"UserByName", "connect", "read_failed">>)
             /\ UserByNameReturn(w, Err("DatabaseError"), NoUser)
        ELSE /\ Log(w, <<"UserByName", "connect", "read_users">>)
             /\ LET name == IF msg[w].cmd = "UserByName" THEN msg[w].name
                            ELSE msg[w].auth.username
                    found == {u \in users : u.name = name} IN
                IF found # {}
                THEN \E u \in found : UserByNameReturn(w, OkSome(u.id), u)
                ELSE UserByNameReturn(w, ModelNotFound("User"), NoUser)
    /\ UNCHANGED <<store, active, msg, pre, ncmds>>

\* ---------------------------------------------------- TokenAuth, BasicAuth

\* User::validate_token: the token verifies with the key of the user's
\* current password.
ValidateToken(user, token) ==
    IF token.key = user.password THEN OkSome(user.id) ELSE Err("Unauthorized")

\* User::verify_password
VerifyPassword(user, password) ==
    IF password = user.password THEN OkSome(user.id) ELSE Err("Unauthorized")

\* if let Authorization::Token(token) = msg.0 and dangerous_unsafe_decode
TokenAuth_Decode(w) ==
    /\ pc[w] = "ta_decode"
    /\ IF msg[w].auth.kind # "Token"
       THEN Log(w, << >>) /\ Return(w, Err("Unauthorized"))
       ELSE /\ Log(w, <<"decode">>)
            /\ IF msg[w].auth.token.wellformed
               THEN SubDispatch(w, "ubi_query")
               ELSE Return(w, Err("Unauthorized"))
    /\ UNCHANGED <<store, active, msg, loc, pre, ncmds>>

\* user.validate_token(&token)
TokenAuth_Validate(w) ==
    /\ pc[w] = "ta_validate"
    /\ Log(w, <<"validate_token">>)
    /\ Return(w, ValidateToken(loc[w].user, msg[w].auth.token))
    /\ UNCHANGED <<store, active, msg, loc, pre, ncmds>>

\* if let Authorization::Basic(username, password) = msg.0
BasicAuth_Start(w) ==
    /\ pc[w] = "ba_start"
    /\ IF msg[w].auth.kind = "Basic"
       THEN SubDispatch(w, "ubn_query")
       ELSE BasicAuthReturn(w, Err("Unauthorized"))
    /\ UNCHANGED <<store, active, msg, loc, trace, pre, ncmds>>

\* user.verify_password(&password)
BasicAuth_Verify(w) ==
    /\ pc[w] = "ba_verify"
    /\ Log(w, <<"verify_password">>)
    /\ BasicAuthReturn(w, VerifyPassword(loc[w].user, msg[w].auth.password))
    /\ UNCHANGED <<store, active, msg, loc, pre, ncmds>>

\* ---------------------------------------------- PatchCurrentUser, Invalidate

\* The patch of a PatchCurrentUser handler: that of its own message, or the
\* PatchMe Invalidate builds, in which only the password is present.
PatchMeOf_WithDisplayName(w) ==
    IF msg[w].cmd = "PatchCurrentUser" THEN msg[w].mepatch
    ELSE [password |-> Some(msg[w].auth.password), display_name |-> Some(""),
          youtube_channel |-> None]
PatchMeOf(w) ==
    IF msg[w].cmd = "PatchCurrentUser" THEN msg[w].mepatch
    ELSE [password |-> Some(msg[w].auth.password), display_name |-> None,
          youtube_channel |-> None]

\* Patchable<PatchMe>::apply_patch for User: the validator of each present
\* field, then the assignment.
PatchMeError(mepatch) ==
    IF IsSome(mepatch.password) /\ Unwrap(mepatch.password) = "short"
    THEN Err("InvalidPassword")
    ELSE NoResult
PatchedMe(user, mepatch) ==
    [user EXCEPT
        !.password = IF IsSome(mepatch.password) THEN Unwrap(mepatch.password) ELSE @,
        !.display_name =
            IF IsSome(mepatch.display_name) THEN Unwrap(mepatch.display_name) ELSE @,
        !.youtube_channel =
            IF IsSome(mepatch.youtube_channel)
            THEN Unwrap(mepatch.youtube_channel) ELSE @]

\* let password = if let Authorization::Basic(_, ref password) = msg.0 {..}
\* else { return Err(Unauthorized) }
Invalidate_Start(w) ==
    /\ pc[w] = "inv_start"
    /\ IF msg[w].auth.kind = "Basic"
       THEN SubDispatch(w, "ba_start")
       ELSE Return(w, Err("Unauthorized"))
    /\ UNCHANGED <<store, active, msg, loc, trace, pre, ncmds>>

\* msg.0.apply_patch(msg.1)? and pool.get(); msg.0 is the user of the
\* message, or the user Invalidate authenticated.
PatchCurrentUser_Apply(w) ==
    /\ pc[w] = "pcu_apply"
    /\ LET e == PatchMeError(PatchMeOf(w))
           me == IF msg[w].cmd = "PatchCurrentUser" THEN msg[w].user
                 ELSE loc[w].user IN
        IF IsErr(e)
        THEN Log(w, <<"PatchCurrentUser", "apply_patch">>) /\ Return(w, e) /\ loc' = loc
        ELSE /\ loc' = [loc EXCEPT ![w].user = PatchedMe(me, PatchMeOf(w))]
             /\ \E ok \in BOOLEAN :
                 IF ok
                 THEN /\ Log(w, <<"PatchCurrentUser", "apply_patch", "connect">>)
                      /\ Goto(w, "pcu_update", 1)
                 ELSE /\ Log(w, <<"PatchCurrentUser", "apply_patch", "connect_failed">>)
                      /\ Return(w, Err("DatabaseConnectionError"))
    /\ UNCHANGED <<store, active, msg, pre, ncmds>>

\* msg.0.update_database(connection)? and Ok(msg.0); Invalidate maps the
\* user away: .map(|_| ())
PatchCurrentUser_Update(w) ==
    /\ pc[w] = "pcu_update"
    /\ \E failed \in BOOLEAN :
        IF failed
        THEN /\ users' = users
             /\ Log(w, <<"update_failed">>)
             /\ Return(w, Err("DatabaseError"))
        ELSE /\ users' = {IF u.id = loc[w].user.id THEN loc[w].user ELSE u
                           : u \in users}
             /\ Log(w, <<"update_user">>)
             /\ Return(w, IF msg[w].cmd = "Invalidate" THEN Res("Ok", 0, "", 0)
                          ELSE OkSome(loc[w].user.id))
    /\ UNCHANGED <<players, demons, records, submitters, nextPlayerId,
                   nextRecordId, active, msg, loc, pre, ncmds>>

\* ------------------------------------------------ SubmitterByIp, Register

\* The serial of a table: one more than the ids handed out so far.
NextId(rows) ==
    IF rows = {} THEN 1
    ELSE 1 + CHOOSE i \in {r.id : r \in rows} : \A r \in rows : r.id <= i

\* pool.get() and Submitter::by_ip(&msg.0).first(connection)
SubmitterByIp_Query(w) ==
    /\ pc[w] = "sbi_query"
    /\ \E got \in {"connection", "no_connection", "query_error"} :
        IF got = "no_connection"
        THEN /\ Log(w, <<"SubmitterByIp", "connect_failed">>)
             /\ Return(w, Err("DatabaseConnectionError"))
        ELSE IF got = "query_error"
        THEN /\ Log(w, <<"SubmitterByIp", "connect", "read_failed">>)
             /\ Return(w, Err("DatabaseError"))
        ELSE /\ Log(w, <<"SubmitterByIp", "connect", "read_submitters">>)
             /\ LET found == {b \in submitters : b.ip = msg[w].name} IN
                IF found # {}
                THEN \E b \in found : Return(w, OkSome(b.id))
                ELSE Goto(w, "sbi_insert", 1)
    /\ UNCHANGED <<store, active, msg, loc, pre, ncmds>>

\* Err(Error::NotFound) => Submitter::insert(connection, &msg.0)
\* The row is inserted; when another worker has inserted a row with the
\* address since the query, the insert either adds a second row or is refused
\* by the table, whichever the schema says.
SubmitterByIp_Insert(w) ==
    /\ pc[w] = "sbi_insert"
    /\ \E refused \in BOOLEAN :
        IF refused
        THEN /\ submitters' = submitters
             /\ Log(w, <<"insert_failed">>)
             /\ Return(w, Err("DatabaseError"))
        ELSE /\ submitters' = submitters
                    \cup {SubmitterRow(NextId(submitters), msg[w].name, FALSE)}
             /\ Log(w, <<"insert_submitter">>)
             /\ Return(w, OkSome(NextId(submitters)))
    /\ UNCHANGED <<players, demons, records, users, nextPlayerId, nextRecordId,
                   active, msg, loc, pre, ncmds>>

\* msg.0.name.len() < 3 || msg.0.name != msg.0.name.trim(), for the names of
\* the registrations received; msg.0.password.len() < 10, for their passwords.
UsernameValid(name) == name \notin {"ab", " user4"}
PasswordValid(password) == password # "short"

\* The two checks of the registration, pool.get() and
\* User::by_name(&msg.0.name).first::<User>(connection)
Register_Query(w) ==
    /\ pc[w] = "reg_query"
    /\ IF ~UsernameValid(msg[w].reg.name)
       THEN Log(w, << >>) /\ Return(w, Err("InvalidUsername"))
       ELSE IF ~PasswordValid(msg[w].reg.password)
       THEN Log(w, << >>) /\ Return(w, Err("InvalidPassword"))
       ELSE \E got \in {"connection", "no_connection", "query_error"} :
            IF got = "no_connection"
            THEN /\ Log(w, <<"Register", "connect_failed">>)
                 /\ Return(w, Err("DatabaseConnectionError"))
            ELSE IF got = "query_error"
            THEN /\ Log(w, <<"Register", "connect", "read_failed">>)
                 /\ Return(w, Err("DatabaseError"))
            ELSE /\ Log(w, <<"Register", "connect", "read_users">>)
                 /\ IF \E u \in users : u.name = msg[w].reg.name
                    THEN Return(w, Err("NameTaken"))
                    ELSE Goto(w, "reg_insert", 1)
    /\ UNCHANGED <<store, active, msg, loc, pre, ncmds>>

\* Err(Error::NotFound) => User::register(connection, &msg.0)
Register_Insert(w) ==
    /\ pc[w] = "reg_insert"
    /\ \E refused \in BOOLEAN :
        IF refused
        THEN /\ users' = users
             /\ Log(w, <<"insert_failed">>)
             /\ Return(w, Err("DatabaseError"))
        ELSE /\ users' = users \cup
                    {[id |-> NextId(users), name |-> msg[w].reg.name,
                      password |-> msg[w].reg.password, display_name |-> "",
                      youtube_channel |-> "", permissions |-> {}]}
             /\ Log(w, <<"insert_user">>)
             /\ Return(w, OkSome(NextId(users)))
    /\ UNCHANGED <<players, demons, records, submitters, nextPlayerId,
                   nextRecordId, active, msg, loc, pre, ncmds>>

\* ------------------------------------------------------------ Paginate<P>

\* A Paginatable over the users: a filter on the name, the id the page starts
\* after, and the size of the page. Pages and cursors are ids.
Filtered(us, pg) == {u.id : u \in {v \in us : IsSome(pg.name) => v.name = Unwrap(pg.name)}}
PageOf(us, pg) ==
    LET cand == {i \in Filtered(us, pg) : IsSome(pg.after) => i > Unwrap(pg.after)}
    IN  {i \in cand : Cardinality({j \in cand : j < i}) < pg.limit}

\* Paginatable::first, last, next_after, prev_before: the pagination object of
\* the page asked for, None when there is no such page.
Cursors(us, pg) ==
    LET all == Filtered(us, pg)
        page == PageOf(us, pg)
        min(ids) == CHOOSE i \in ids : \A j \in ids : i <= j
        max(ids) == CHOOSE i \in ids : \A j \in ids : j <= i
    IN  [first |-> IF all = {} THEN None ELSE Some(min(all)),
         last |-> IF all = {} THEN None ELSE Some(max(all)),
         next |-> IF page = {} \/ ~\E i \in all : i > max(page)
                  THEN None ELSE Some(max(page)),
         prev |-> IF page = {} \/ ~\E i \in all : i < min(page)
                  THEN None ELSE Some(min(page))]

\* serde_urlencoded::ser::to_string(cursor): Ok with the query string of a
\* pagination object. The crate is not among the sources; its serializer
\* makes of a cursor that is None what top_level_none says, Ok with the empty
\* string ("empty") or an error ("error"); "key" is neither.
UrlEncode_NoneAsKey(cursor, top_level_none) ==
    IF cursor = None THEN [ok |-> TRUE, query |-> <<"id">>]
    ELSE [ok |-> TRUE, query |-> <<"id", Unwrap(cursor)>>]
UrlEncode(cursor, top_level_none) ==
    IF cursor # None THEN [ok |-> TRUE, query |-> <<"id", Unwrap(cursor)>>]
    ELSE [ok |-> top_level_none = "empty", query |-> << >>]

\* format!("<{}>; rel=first,<{}>; rel=prev,<{}>; rel=next,<{}>; rel=last", ..)
\* of the four query strings, unwrapped.
LinkHeader(c, top_level_none) ==
    << <<UrlEncode(c.first, top_level_none).query, "first">>,
       <<UrlEncode(c.prev, top_level_none).query, "prev">>,
       <<UrlEncode(c.next, top_level_none).query, "next">>,
       <<UrlEncode(c.last, top_level_none).query, "last">> >>

\* Handler<Paginate<P>>: self.0.get(). The connection is held for the five
\* statements that follow; they are in no transaction.
Paginate_Connect(w) ==
    /\ pc[w] = "pg_run"
    /\ \E ok \in BOOLEAN :
        IF ~ok
        THEN /\ Log(w, <<"Paginate", "connect_failed">>)
             /\ Return(w, Err("DatabaseConnectionError"))
        ELSE /\ Log(w, <<"Paginate", "connect">>)
             /\ Goto(w, "pg_first", 1)
    /\ UNCHANGED <<store, active, msg, loc, pre, ncmds>>

\* let first = msg.0.first(connection)?; and then last, next_after and
\* prev_before, in that order: one statement a step, each reading the users
\* as they are when it runs.
Paginate_Cursor(w) ==
    /\ pc[w] \in {"pg_first", "pg_last", "pg_next", "pg_prev"}
    /\ \E failed \in BOOLEAN :
        IF failed
        THEN /\ Log(w, <<"read_failed">>)
             /\ Return(w, Err("DatabaseError"))
             /\ loc' = loc
        ELSE LET c == Cursors(users, msg[w].page) IN
             /\ Log(w, <<"read_users">>)
             /\ CASE pc[w] = "pg_first" ->
                        /\ loc' = [loc EXCEPT ![w].cursors.first = c.first]
                        /\ Goto(w, "pg_last", 1)
                  [] pc[w] = "pg_last" ->
                        /\ loc' = [loc EXCEPT ![w].cursors.last = c.last]
                        /\ Goto(w, "pg_next", 1)
                  [] pc[w] = "pg_next" ->
                        /\ loc' = [loc EXCEPT ![w].cursors.next = c.next]
                        /\ Goto(w, "pg_prev", 1)
                  [] pc[w] = "pg_prev" ->
                        /\ loc' = [loc EXCEPT ![w].cursors.prev = c.prev]
                        /\ Goto(w, "pg_result", 1)
    /\ UNCHANGED <<store, active, msg, pre, ncmds>>

\* let result = msg.0.result(connection)?; the header of the four cursors
\* read before, each serialized and unwrapped; Ok((result, header)). An
\* unwrap of an Err panics: the handler returns nothing, and its connection
\* is dropped as the thread of the worker unwinds.
Paginate_Result(w) ==
    /\ pc[w] = "pg_result"
    /\ \E failed \in BOOLEAN, top_level_none \in {"empty", "error"} :
        LET c == loc[w].cursors IN
        IF failed
        THEN /\ Log(w, <<"read_failed">>)
             /\ Return(w, Err("DatabaseError"))
        ELSE IF \E x \in {c.first, c.prev, c.next, c.last} :
                    ~UrlEncode(x, top_level_none).ok
        THEN /\ Log(w, <<"read_users", "unwrap_panic">>)
             /\ pc' = [pc EXCEPT ![w] = "panicked"]
             /\ held' = [held EXCEPT ![w] = 0]
             /\ result' = result
        ELSE /\ Log(w, <<"read_users">>)
             /\ Return(w, [Res("Ok", 0, "", 0) EXCEPT
                              !.page = PageOf(users, msg[w].page),
                              !.header = LinkHeader(c, top_level_none)])
    /\ UNCHANGED <<store, active, msg, loc, pre, ncmds>>

\* ---------------------------------- the specification of the user commands

\* Handler<DeleteUserById>: self.0.get().map_err(..).and_then(|connection|
\* User::delete_by_id(&connection, msg.0).map_err(..)). The DELETE removes
\* the rows with that id, none when there is no such user.
DeleteUserById_Run(w) ==
    /\ pc[w] = "dubi_run"
    /\ \E got \in {"connection", "no_connection", "query_error"} :
        IF got = "no_connection"
        THEN /\ users' = users
             /\ Log(w, <<"connect_failed">>)
             /\ Return(w, Err("DatabaseConnectionError"))
        ELSE IF got = "query_error"
        THEN /\ users' = users
             /\ Log(w, <<"connect", "delete_user_failed">>)
             /\ Return(w, Err("DatabaseError"))
        ELSE /\ users' = {u \in users : u.id # msg[w].id}
             /\ Log(w, <<"connect", "delete_user">>)
             /\ Return(w, Res("Ok", 0, "", 0))
    /\ UNCHANGED <<players, demons, records, submitters, nextPlayerId,
                   nextRecordId, active, msg, loc, pre, ncmds>>

\* The messages listed below carry: an Authorization that is Basic, Token or
\* neither; the id or name of a user; a user and a PatchMe; an address; a
\* Registration; a pagination object.
ReceiveAuth(w) ==
    \E a \in {NoAuth}
             \cup [kind : {"Basic"}, username : {"user1", "nobody"},
                   password : {"password-1", "wrong"}, token : {NoToken}]
             \cup [kind : {"Token"}, username : {""}, password : {""},
                   token : {NoToken} \cup [wellformed : {TRUE}, id : {1, 9},
                                           key : {"password-1", "old"}]] :
        \/ Accept(w, [NoMsg EXCEPT !.cmd = "TokenAuth", !.auth = a], "ta_decode", 0)
        \/ Accept(w, [NoMsg EXCEPT !.cmd = "BasicAuth", !.auth = a], "ba_start", 0)
        \/ Accept(w, [NoMsg EXCEPT !.cmd = "Invalidate", !.auth = a], "inv_start", 0)

ReceiveUserLookup(w) ==
    \/ \E id \in {1, 9} :
        Accept(w, [NoMsg EXCEPT !.cmd = "UserById", !.id = id], "ubi_query", 0)
    \/ \E n \in {"user1", "nobody"} :
        Accept(w, [NoMsg EXCEPT !.cmd = "UserByName", !.name = n], "ubn_query", 0)
    \/ \E id \in {1, 9} :
        Accept(w, [NoMsg EXCEPT !.cmd = "DeleteUserById", !.id = id], "dubi_run", 0)

ReceivePatchCurrentUser(w) ==
    \E me \in users,
       mp \in [password : {None, Some("password-2"), Some("short")},
               display_name : {None, Some("n2")}, youtube_channel : {None}] :
        Accept(w, [NoMsg EXCEPT !.cmd = "PatchCurrentUser", !.user = me,
                                !.mepatch = mp], "pcu_apply", 0)

ReceiveSubmitterByIp(w) ==
    \E ip \in {"ip1", "ip2"} :
        Accept(w, [NoMsg EXCEPT !.cmd = "SubmitterByIp", !.name = ip], "sbi_query", 0)

ReceiveRegister(w) ==
    \E r \in [name : {"user1", "user3", "ab", " user4"},
              password : {"password-3", "short"}] :
        Accept(w, [NoMsg EXCEPT !.cmd = "Register", !.reg = r], "reg_query", 0)

ReceivePaginate(w) ==
    \E pg \in [name : {None, Some("user1"), Some("user3"), Some("nobody")},
               after : {None, Some(1)}, limit : {1}] :
        Accept(w, [NoMsg EXCEPT !.cmd = "Paginate", !.page = pg], "pg_run", 0)

\* The next statement of the user command worker w is executing.
UserStep(w) ==
    \/ UserById_Query(w)
    \/ UserByName_Query(w)
    \/ DeleteUserById_Run(w)
    \/ TokenAuth_Decode(w)
    \/ TokenAuth_Validate(w)
    \/ BasicAuth_Start(w)
    \/ BasicAuth_Verify(w)
    \/ Invalidate_Start(w)
    \/ PatchCurrentUser_Apply(w)
    \/ PatchCurrentUser_Update(w)
    \/ SubmitterByIp_Query(w)
    \/ SubmitterByIp_Insert(w)
    \/ Register_Query(w)
    \/ Register_Insert(w)
    \/ Paginate_Connect(w)
    \/ Paginate_Cursor(w)
    \/ Paginate_Result(w)

NextUsers ==
    \E w \in active :
        \/ ReceiveAuth(w)
        \/ ReceiveUserLookup(w)
        \/ ReceivePatchCurrentUser(w)
        \/ ReceiveSubmitterByIp(w)
        \/ ReceiveRegister(w)
        \/ ReceivePaginate(w)
        \/ UserStep(w)
        \/ Reply(w)

SpecUsers == InitPatch /\ [][NextUsers]_vars

\* --------------------------------------- patches on two workers at once

\* Two of the workers take one message each; each can be anywhere in its
\* handler when the other makes a step.
ReceiveConcurrentDemonPatch(w) ==
    \E d \in demons, p \in {None, Some(1), Some(3)}, r \in {None, Some(70)},
       n \in {None, Some("dn")} :
        /\ <<p, r, n>> # <<None, None, None>>
        /\ Accept(w, [NoMsg EXCEPT !.cmd = "DemonPatch", !.demon = d,
                                   !.dpatch = [NoPatchDemon EXCEPT
                                                  !.position = p,
                                                  !.requirement = r,
                                                  !.name = n],
                                   !.ctx = [kind |-> "Internal", user |-> None,
                                            if_match |-> None]], "dp_auth", 1)

ReceiveConcurrentPatch(w) ==
    \E target \in users :
        Accept(w, [NoMsg EXCEPT !.cmd = "Patch", !.actor = {"Moderator"},
                                !.user = target,
                                !.upatch = [NoPatchUser EXCEPT
                                               !.display_name = Some("n2")]],
               "pa_auth", 0)

\* The next statement of the patch worker w is executing.
PatchStep(w) ==
    \/ Patch_Authorize(w)
    \/ Patch_Apply(w)
    \/ Patch_Update(w)
    \/ DP_Authorize(w)
    \/ DP_Validate(w)
    \/ DP_Apply(w)
    \/ DP_MapPlayer(w)
    \/ DP_Begin(w)
    \/ DP_Statement(w)
    \/ DP_Commit(w)

InitPatchConcurrent == InitPatchStore /\ active = {1, 2} /\ InitWorkers

NextPatchConcurrent ==
    \E w \in active :
        \/ ReceiveConcurrentDemonPatch(w)
        \/ ReceiveConcurrentPatch(w)
        \/ PatchStep(w)

SpecPatchConcurrent == InitPatchConcurrent /\ [][NextPatchConcurrent]_vars

\* ----------------------------- get-or-create commands on two workers at once

\* Two of the workers take one message each of PlayerByName, SubmitterByIp
\* and Register, with keys that exist and keys that do not.
ReceiveGetOrCreate(w) ==
    \/ ReceivePlayerByName(w)
    \/ ReceiveSubmitterByIp(w)
    \/ \E r \in [name : {"user1", "user3"}, password : {"password-3"}] :
        Accept(w, [NoMsg EXCEPT !.cmd = "Register", !.reg = r], "reg_query", 0)

NextGetOrCreate ==
    \E w \in active :
        \/ ReceiveGetOrCreate(w)
        \/ PlayerByName_Query(w)
        \/ PlayerByName_Insert(w)
        \/ SubmitterByIp_Query(w)
        \/ SubmitterByIp_Insert(w)
        \/ Register_Query(w)
        \/ Register_Insert(w)

SpecGetOrCreate == InitPatchConcurrent /\ [][NextGetOrCreate]_vars

\* ------------------------------------- Paginate while another worker writes

\* Two of the workers take one message each, a Paginate or a Register: the
\* statements of a Paginate interleave with the query and the insert of a
\* Register, and users are only added.
NextPaginateConcurrent ==
    \E w \in active :
        \/ ReceivePaginate(w)
        \/ ReceiveRegister(w)
        \/ Paginate_Connect(w)
        \/ Paginate_Cursor(w)
        \/ Paginate_Result(w)
        \/ Register_Query(w)
        \/ Register_Insert(w)

SpecPaginateConcurrent == InitPatchConcurrent /\ [][NextPaginateConcurrent]_vars

\* ------------------------- commands that dispatch, on two workers at once

\* Two of the workers take one message each of the commands whose handlers
\* call other handlers: ProcessSubmission, TokenAuth, BasicAuth, Invalidate.
ReceiveDispatching(w) ==
    \/ \E s \in [progress : {100}, player : PlayerNames, demon : {"d1", "dx"},
                 video : {NoVideo}, verify_only : {FALSE}] :
        Accept(w, [NoMsg EXCEPT !.cmd = "ProcessSubmission", !.sub = s,
                                !.submitter = [id |-> 1, banned |-> FALSE]],
               "ps_ban", 0)
    \/ \E a \in {[NoAuth EXCEPT !.kind = "Basic", !.username = "user1",
                                !.password = "password-1"],
                 [NoAuth EXCEPT !.kind = "Basic", !.username = "nobody",
                                !.password = "wrong"],
                 [NoAuth EXCEPT !.kind = "Token",
                                !.token = [wellformed |-> TRUE, id |-> 1,
                                           key |-> "password-1"]]} :
        \/ Accept(w, [NoMsg EXCEPT !.cmd = "TokenAuth", !.auth = a], "ta_decode", 0)
        \/ Accept(w, [NoMsg EXCEPT !.cmd = "BasicAuth", !.auth = a], "ba_start", 0)
        \/ Accept(w, [NoMsg EXCEPT !.cmd = "Invalidate", !.auth = a], "inv_start", 0)

\* The next statement of the handler worker w is executing, in its own
\* handler or in one it called.
DispatchStep(w) ==
    \/ PS_BanCheck(w)
    \/ PS_ValidateVideo(w)
    \/ PlayerByName_Query(w)
    \/ PlayerByName_Insert(w)
    \/ DemonByName_Query(w)
    \/ PS_Checks(w)
    \/ PS_Lookup(w)
    \/ PS_Delete(w)
    \/ PS_Insert(w)
    \/ TokenAuth_Decode(w)
    \/ UserById_Query(w)
    \/ TokenAuth_Validate(w)
    \/ Invalidate_Start(w)
    \/ BasicAuth_Start(w)
    \/ UserByName_Query(w)
    \/ BasicAuth_Verify(w)
    \/ PatchCurrentUser_Apply(w)
    \/ PatchCurrentUser_Update(w)

InitDispatch ==
    /\ players = {[id |-> 1, name |-> "p1", banned |-> FALSE]}
    /\ demons = DemonRows
    /\ records = {InitRecord(1, 60, NoVideo, "Submitted")}
    /\ users = UserRows
    /\ submitters = {SubmitterRow(1, "ip1", FALSE)}
    /\ nextPlayerId = 2
    /\ nextRecordId = 2
    /\ active = {1, 2}
    /\ InitWorkers

NextDispatch == \E w \in active : ReceiveDispatching(w) \/ DispatchStep(w)

\* Every worker is a thread of its own that runs the handler of the message
\* it took: a statement that can be executed is executed.
SpecDispatch ==
    /\ InitDispatch
    /\ [][NextDispatch]_vars
    /\ \A w \in {1, 2} : WF_vars(DispatchStep(w))

\* ------------------------------------------- every command, one worker

\* One worker takes messages of every command of the actor and of
\* Demon::patch, one after the other, on a store that holds a record.
NextEveryCommand ==
    \E w \in active :
        \/ ReceiveDispatching(w)
        \/ ReceivePlayerByName(w)
        \/ ReceiveDemonByName(w)
        \/ ReceiveRecordCommand(w)
        \/ ReceiveUserLookup(w)
        \/ ReceivePatchCurrentUser(w)
        \/ ReceiveSubmitterByIp(w)
        \/ ReceiveRegister(w)
        \/ ReceivePaginate(w)
        \/ ReceiveConcurrentPatch(w)
        \/ ReceiveConcurrentDemonPatch(w)
        \/ RecordById_Query(w)
        \/ DeleteRecordById_Run(w)
        \/ PlayerByName_Query(w)
        \/ PlayerByName_Insert(w)
        \/ DemonByName_Query(w)
        \/ PS_BanCheck(w)
        \/ PS_ValidateVideo(w)
        \/ PS_Checks(w)
        \/ PS_Lookup(w)
        \/ PS_Delete(w)
        \/ PS_Insert(w)
        \/ UserStep(w)
        \/ PatchStep(w)
        \/ Reply(w)

InitEveryCommand ==
    /\ players = {[id |-> 1, name |-> "p1", banned |-> FALSE]}
    /\ demons = DemonRows
    /\ records = {InitRecord(1, 60, NoVideo, "Submitted")}
    /\ users = UserRows
    /\ submitters = {SubmitterRow(1, "ip1", FALSE)}
    /\ nextPlayerId = 2
    /\ nextRecordId = 2
    /\ active = {1}
    /\ InitWorkers

SpecEveryCommand == InitEveryCommand /\ [][NextEveryCommand]_vars

\* ------------------------------------- the RequestContext specification

\* The methods of RequestContext, called with every context and argument of
\* the sets below.
AllFlags == ListFlags \cup UserFlags

PermissionContexts ==
    {[kind |-> "Internal", user |-> None, if_match |-> None]} \cup
    [kind : {"External"},
     user : {None} \cup {Some(ps) : ps \in SUBSET AllFlags},
     if_match : {None}]

\* The states of the demons a caller can have read or can hand to
\* check_if_match.
EntityStates ==
    {[d EXCEPT !.requirement = r, !.video = v] :
        d \in DemonRows, r \in {50, 70}, v \in {NoVideo, "c1"}}

IfMatchContexts ==
    {[kind |-> "Internal", user |-> None, if_match |-> None]} \cup
    [kind : {"External"},
     user : {None, Some({"ListModerator"})},
     if_match : {None} \cup {Some(DemonHash(e)) : e \in EntityStates}]

ReceiveCheckPermissions(w) ==
    \E ctx \in PermissionContexts, required \in SUBSET AllFlags :
        Accept(w, [NoMsg EXCEPT !.cmd = "check_permissions", !.ctx = ctx,
                                !.required = required], "cp_check", 1)

\* pub fn check_permissions(&self, permissions: PermissionsSet) -> Result<()>
CP_Check(w) ==
    /\ pc[w] = "cp_check"
    /\ Log(w, <<"check_permissions">>)
    /\ Return(w, CheckPermissions(msg[w].ctx, msg[w].required))
    /\ UNCHANGED <<store, active, msg, loc, pre, ncmds>>

ReceiveCheckIfMatch(w) ==
    \E ctx \in IfMatchContexts, h \in EntityStates :
        Accept(w, [NoMsg EXCEPT !.cmd = "check_if_match", !.ctx = ctx,
                                !.demon = h], "cim_check", 1)

\* pub fn check_if_match<H: Hash>(&self, h: H) -> Result<()>
CIM_Check(w) ==
    /\ pc[w] = "cim_check"
    /\ Log(w, <<"check_if_match">>)
    /\ Return(w, CheckIfMatch(msg[w].ctx, DemonHash(msg[w].demon)))
    /\ UNCHANGED <<store, active, msg, loc, pre, ncmds>>

NextContext ==
    \E w \in active :
        \/ ReceiveCheckPermissions(w)
        \/ ReceiveCheckIfMatch(w)
        \/ CP_Check(w)
        \/ CIM_Check(w)
        \/ Reply(w)

SpecContext == InitPatch /\ [][NextContext]_vars

\* ------------------------------------------------------------------ claims

IsPS(w) == msg[w].cmd = "ProcessSubmission"
InTrace(w, e) == \E i \in DOMAIN trace[w] : trace[w][i] = e
\* The pool handed out no connection, or a statement sent to the database
\* came back with an error.
StorageFailed(w) ==
    \E e \in {"connect_failed", "read_failed", "insert_failed",
              "delete_record_failed", "delete_user_failed", "update_failed"} :
        InTrace(w, e)
\* e1 never comes after the first e2 without having come before it
Precedes(w, e1, e2) ==
    \A j \in DOMAIN trace[w] :
        trace[w][j] = e2 => \E i \in 1..(j - 1) : trace[w][i] = e1
StoreUnchanged(w) == Snapshot = pre[w]
NewRecords(w) == records \ pre[w].records
GoneRecords(w) == pre[w].records \ records

\* C1: a ProcessSubmission of a banned submitter fails with
\* BannedFromSubmissions, and up to then the handler has done nothing but the
\* ban check: no video validation, no player or demon resolution, no
\* connection, no read or write of the store.
C1_BannedSubmitterStopsFirst ==
    \A w \in active :
        (IsPS(w) /\ msg[w].submitter.banned) =>
            /\ pc[w] \in {"ps_ban", "done"}
            /\ \A i \in DOMAIN trace[w] : trace[w][i] = "ban_check"
            /\ held[w] = 0
            /\ StoreUnchanged(w)
            /\ pc[w] = "done" => result[w] = Err("BannedFromSubmissions")

\* C1 witness: a banned submitter's submission with a video, for a player that
\* does not exist yet, has been rejected.
C1_Witness ==
    \E w \in active :
        /\ IsPS(w) /\ msg[w].submitter.banned /\ pc[w] = "done"
        /\ msg[w].sub.video = "u1" /\ msg[w].sub.player = "p2"
        /\ result[w] = Err("BannedFromSubmissions")

\* C2: during and after a verify_only ProcessSubmission the set of records is
\* the one the command started with, whatever the outcome, and when the
\* command does not fail it returns None.
C2_VerifyOnlyKeepsRecords ==
    \A w \in active :
        (IsPS(w) /\ msg[w].sub.verify_only) =>
            /\ records = pre[w].records
            /\ ~InTrace(w, "delete_record") /\ ~InTrace(w, "insert_record")
            /\ (pc[w] = "done" /\ ~IsErr(result[w])) => result[w] = OkNone

\* C2 witness: a verify_only submission that supersedes a Submitted record
\* (the case in which a plain submission deletes and inserts) returned None.
C2_Witness ==
    \E w \in active :
        /\ IsPS(w) /\ msg[w].sub.verify_only /\ pc[w] = "done"
        /\ result[w] = OkNone
        /\ loc[w].found.status = "Submitted"
        /\ loc[w].found.progress < msg[w].sub.progress

\* The record a finished, successful submission created.
Created(w) ==
    [id |-> result[w].id, progress |-> msg[w].sub.progress, video |-> loc[w].video,
     status |-> "Submitted", player |-> loc[w].player.id,
     submitter |-> msg[w].submitter.id, demon |-> loc[w].demon.name]

\* C3: a submission (not verify_only) that passed the checks and found a
\* Submitted record of lower progress ends with that record gone and exactly
\* one new record: Submitted, with the submitted progress, for the player
\* and demon of the submission. The one other outcome is the error of the
\* database when it refuses the DELETE or the INSERT: DatabaseError, and no
\* new record.
C3_SubmittedDuplicateReplaced ==
    \A w \in active :
        (/\ IsPS(w) /\ ~msg[w].sub.verify_only /\ pc[w] = "done"
         /\ loc[w].found.status = "Submitted"
         /\ loc[w].found.progress < msg[w].sub.progress) =>
            /\ IF StorageFailed(w)
               THEN /\ result[w] = Err("DatabaseError")
                    /\ NewRecords(w) = {}
                    /\ GoneRecords(w) \subseteq {loc[w].found}
               ELSE /\ result[w].tag = "Ok"
                    /\ \A r \in records : r.id # loc[w].found.id
                    /\ GoneRecords(w) = {loc[w].found}
                    /\ NewRecords(w) = {Created(w)}
            /\ loc[w].player.name = msg[w].sub.player
            /\ loc[w].demon.name = msg[w].sub.demon

\* C3 witness: Submitted 60 replaced by Submitted 100 of the same player and
\* demon.
C3_Witness ==
    \E w \in active :
        /\ IsPS(w) /\ ~msg[w].sub.verify_only /\ pc[w] = "done"
        /\ loc[w].found.status = "Submitted" /\ loc[w].found.progress = 60
        /\ loc[w].found.player = loc[w].player.id
        /\ loc[w].found.demon = loc[w].demon.name
        /\ msg[w].sub.progress = 100
        /\ loc[w].found \notin records
        /\ Created(w) \in records

\* C4: a submission (not verify_only) that passed the checks and found an
\* Approved record of lower progress ends with every old record, the
\* Approved one included, still there unchanged, and one new Submitted record
\* with the submitted progress beside it. The one other outcome is the error
\* of the database when it refuses the INSERT: DatabaseError, and no new
\* record.
C4_ApprovedDuplicateKept ==
    \A w \in active :
        (/\ IsPS(w) /\ ~msg[w].sub.verify_only /\ pc[w] = "done"
         /\ loc[w].found.status = "Approved"
         /\ loc[w].found.progress < msg[w].sub.progress) =>
            /\ loc[w].found \in records
            /\ GoneRecords(w) = {}
            /\ IF StorageFailed(w)
               THEN result[w] = Err("DatabaseError") /\ NewRecords(w) = {}
               ELSE result[w].tag = "Ok" /\ NewRecords(w) = {Created(w)}

\* C4 witness: Approved 60 and the new Submitted 100 side by side.
C4_Witness ==
    \E w \in active :
        /\ IsPS(w) /\ ~msg[w].sub.verify_only /\ pc[w] = "done"
        /\ loc[w].found.status = "Approved" /\ loc[w].found.progress = 60
        /\ loc[w].found.player = loc[w].player.id
        /\ msg[w].sub.progress = 100
        /\ loc[w].found \in records
        /\ Created(w) \in records

\* C5: when the record found for the player and demon of a submission is
\* Rejected, or has at least the submitted progress, the command fails with
\* SubmissionExists carrying the status and id of that record, and the store
\* is the one the command started with.
C5_BlockingDuplicate ==
    \A w \in active :
        (/\ IsPS(w) /\ pc[w] = "done"
         /\ loc[w].found # NoRecord
         /\ loc[w].found.player = loc[w].player.id
         /\ loc[w].found.demon = loc[w].demon.name
         /\ \/ loc[w].found.status = "Rejected"
            \/ loc[w].found.progress >= msg[w].sub.progress) =>
            /\ result[w] = SubmissionExists(loc[w].found.status, loc[w].found.id)
            /\ StoreUnchanged(w)

\* C5 witness: one with a Rejected record of lower progress, one with a
\* record of equal progress.
C5_Witness ==
    \E w \in active :
        /\ IsPS(w) /\ pc[w] = "done" /\ ~msg[w].sub.verify_only
        /\ loc[w].found.player = loc[w].player.id
        /\ loc[w].found.demon = loc[w].demon.name
        /\ loc[w].found.status = "Rejected"
        /\ loc[w].found.progress < msg[w].sub.progress
        /\ result[w].tag = "SubmissionExists"

\* The demon a submission names is on the legacy list.
TargetsLegacy(w) ==
    \E d \in pre[w].demons :
        d.name = msg[w].sub.demon /\ d.position > EXTENDED_LIST_SIZE
\* The player a submission names exists and is banned.
TargetsBannedPlayer(w) ==
    \E p \in pre[w].players : p.name = msg[w].sub.player /\ p.banned

\* C6 as stated: every submission for a legacy demon ends in SubmitLegacy.
C6_AlwaysSubmitLegacy ==
    \A w \in active :
        (IsPS(w) /\ TargetsLegacy(w) /\ pc[w] = "done") =>
            result[w] = Err("SubmitLegacy")

\* C6 amended: every submission for a demon beyond the extended list is
\* rejected and creates or deletes no record, for every progress value; the
\* error is SubmitLegacy whenever the steps before the position check pass
\* (submitter not banned, video absent or valid, no error of the pool or the
\* database, player not banned), and the error of that earlier step otherwise.
C6_LegacyRejected ==
    \A w \in active :
        (IsPS(w) /\ TargetsLegacy(w)) =>
            /\ records = pre[w].records
            /\ pc[w] = "done" =>
                /\ IsErr(result[w])
                /\ (/\ ~msg[w].submitter.banned
                    /\ msg[w].sub.video # "bad"
                    /\ ~StorageFailed(w)
                    /\ ~TargetsBannedPlayer(w)) => result[w] = Err("SubmitLegacy")

\* C6 witness: SubmitLegacy for a progress that is invalid on its own.
C6_Witness ==
    \E w \in active :
        /\ IsPS(w) /\ TargetsLegacy(w) /\ pc[w] = "done"
        /\ msg[w].sub.progress = 101
        /\ result[w] = Err("SubmitLegacy")

\* C7: whenever ProcessSubmission returns an error, players and records are
\* the ones the command started with.
C7_ErrorPersistsNothing ==
    \A w \in active :
        (IsPS(w) /\ pc[w] = "done" /\ IsErr(result[w])) => StoreUnchanged(w)

\* The validity checks a submission fails, by the error they return.  The
\* checks of the player and of the demon are made on the pair that
\* ResolveSubmissionData returns, so they exist only if the demon does.
FailedChecks(w) ==
    LET sub == msg[w].sub
        ds == {d \in pre[w].demons : d.name = sub.demon}
    IN  {t \in {"BannedFromSubmissions"} : msg[w].submitter.banned}
        \cup {t \in {"InvalidVideo"} : sub.video = "bad"}
        \cup {t \in {"PlayerBanned"} : ds # {} /\ TargetsBannedPlayer(w)}
        \cup {t \in {"SubmitLegacy"} :
                \E d \in ds : d.position > EXTENDED_LIST_SIZE}
        \cup {t \in {"Non100Extended"} :
                \E d \in ds : /\ d.position > LIST_SIZE
                              /\ d.position <= EXTENDED_LIST_SIZE
                              /\ sub.progress # 100}
        \cup {t \in {"InvalidProgress"} :
                \E d \in ds : sub.progress > 100 \/ sub.progress < d.requirement}

\* C8: in every ProcessSubmission the ban check of the submitter comes before
\* the video validation and the video validation before the lookup of an
\* existing record; a submission that fails a validity check ends with the
\* error of a check it fails (unless the pool or the database fails during
\* the resolution), never with SubmissionExists, and without the duplicate
\* lookup having been made.
C8_ValidityBeforeDuplicates ==
    \A w \in active :
        IsPS(w) =>
            /\ Precedes(w, "ban_check", "video_validate")
            /\ Precedes(w, "ban_check", "read_records")
            /\ msg[w].sub.video # NoVideo =>
                   Precedes(w, "video_validate", "read_records")
            /\ FailedChecks(w) # {} =>
                /\ ~InTrace(w, "read_records")
                /\ result[w].tag # "SubmissionExists"
                /\ (pc[w] = "done" /\ ~StorageFailed(w)) =>
                       result[w].tag \in FailedChecks(w)

\* C8 witness: a banned player's submission, with a video, is refused with
\* PlayerBanned although a Rejected record of that player and demon exists.
C8_Witness ==
    \E w \in active :
        /\ IsPS(w) /\ pc[w] = "done"
        /\ result[w] = Err("PlayerBanned")
        /\ msg[w].sub.video = "u1"
        /\ \E r \in records :
            /\ r.player = loc[w].player.id /\ r.demon = loc[w].demon.name
            /\ r.status = "Rejected"

IsPatch(w) == msg[w].cmd = "Patch"
IsDemonPatch(w) == msg[w].cmd = "DemonPatch"
AuthError(r) == r.tag \in {"MissingPermissions", "Unauthorized"}
\* The actor of a generic Patch holds none of the required flags.
PatchNoCommonFlag(w) ==
    /\ RequiredPermissions(msg[w].upatch) # {}
    /\ msg[w].actor \cap RequiredPermissions(msg[w].upatch) = {}
\* The External caller of Demon::patch is anonymous or holds no list flag.
DemonPatchNoCommonFlag(w) ==
    /\ msg[w].ctx.kind = "External"
    /\ IsSome(msg[w].ctx.user) => Unwrap(msg[w].ctx.user) \cap DemonPatchPermissions = {}

\* C9: a patch (the Patch message or Demon::patch) whose authorization fails
\* returns the authorization error; the patch is not applied to the object,
\* no connection is taken from the pool, no transaction is opened and the
\* stored rows are those the command started with.
C9_RefusedPatchChangesNothing ==
    \A w \in active :
        /\ (IsPatch(w) /\ PatchNoCommonFlag(w) /\ pc[w] = "done") =>
               result[w] = MissingPermissions(RequiredPermissions(msg[w].upatch))
        /\ (IsDemonPatch(w) /\ DemonPatchNoCommonFlag(w) /\ pc[w] = "done") =>
               result[w] = IF IsSome(msg[w].ctx.user)
                           THEN MissingPermissions(DemonPatchPermissions)
                           ELSE Err("Unauthorized")
        /\ ((IsPatch(w) \/ IsDemonPatch(w)) /\ AuthError(result[w])) =>
            /\ trace[w] = <<"check_permissions">>
            /\ loc[w].user = NoUser /\ loc[w].demon = NoDemon
            /\ StoreUnchanged(w)
        /\ ((IsPatch(w) /\ PatchNoCommonFlag(w))
            \/ (IsDemonPatch(w) /\ DemonPatchNoCommonFlag(w))) =>
            /\ pc[w] \in {"pa_auth", "dp_auth", "done"}
            /\ ~InTrace(w, "apply_patch") /\ ~InTrace(w, "connect")
            /\ ~InTrace(w, "transaction")
            /\ StoreUnchanged(w)

\* C9 witness: a Demon::patch that renames the demon, with a matching
\* precondition token, was refused for missing permissions.
C9_Witness ==
    \E w \in active :
        /\ IsDemonPatch(w) /\ pc[w] = "done"
        /\ msg[w].dpatch.name = Some("dn")
        /\ msg[w].ctx.if_match = Some(DemonHash(msg[w].demon))
        /\ IsSome(msg[w].ctx.user)
        /\ result[w].tag = "MissingPermissions"

\* C10: authorization of a patch succeeds exactly when the granted set and
\* the (non-empty) required set have a flag in common, in the Patch message
\* as in RequestContext::check_permissions for an authenticated caller.
C10_AuthorizedIffAnyFlag ==
    \A w \in active :
        /\ (/\ IsPatch(w) /\ pc[w] # "pa_auth"
            /\ RequiredPermissions(msg[w].upatch) # {}) =>
               (~AuthError(result[w]) <=>
                    msg[w].actor \cap RequiredPermissions(msg[w].upatch) # {})
        /\ (/\ IsDemonPatch(w) /\ pc[w] # "dp_auth"
            /\ msg[w].ctx.kind = "External" /\ IsSome(msg[w].ctx.user)) =>
               (~AuthError(result[w]) <=>
                    Unwrap(msg[w].ctx.user) \cap DemonPatchPermissions # {})

IsCheckPermissions(w) == msg[w].cmd = "check_permissions"
IsCheckIfMatch(w) == msg[w].cmd = "check_if_match"

\* C11: check_permissions(required) succeeds for every context when required
\* is empty; with a non-empty required set it returns Unauthorized for an
\* External context without user, MissingPermissions{required} for an
\* External context whose user holds none of the required flags, and succeeds
\* for an External user holding at least one required flag and for every
\* Internal context.
C11_CheckPermissions ==
    \A w \in active :
        (IsCheckPermissions(w) /\ pc[w] = "done") =>
            LET ctx == msg[w].ctx
                required == msg[w].required
            IN  /\ required = {} => result[w] = NoResult
                /\ (required # {} /\ ctx.kind = "Internal") => result[w] = NoResult
                /\ (required # {} /\ ctx.kind = "External" /\ ctx.user = None) =>
                       result[w] = Err("Unauthorized")
                /\ (required # {} /\ ctx.kind = "External" /\ ctx.user # None) =>
                       IF \E f \in required : f \in Unwrap(ctx.user)
                       THEN result[w] = NoResult
                       ELSE /\ result[w].tag = "MissingPermissions"
                            /\ result[w].required = required

\* C11 witness: an External user holding one of two required flags passed.
C11_Witness ==
    \E w \in active :
        /\ IsCheckPermissions(w) /\ pc[w] = "done"
        /\ msg[w].ctx.kind = "External"
        /\ msg[w].ctx.user = Some({"ListModerator"})
        /\ msg[w].required = {"ListModerator", "Administrator"}
        /\ result[w] = NoResult

\* C12: check_if_match(entity) on an External context without precondition
\* token fails with InvalidState; on an External context with a token it
\* succeeds when the token is the hash of the entity and fails with
\* PreconditionFailed otherwise; on an Internal context it succeeds.
C12_CheckIfMatch ==
    \A w \in active :
        (IsCheckIfMatch(w) /\ pc[w] = "done") =>
            LET ctx == msg[w].ctx
                hash == DemonHash(msg[w].demon)
            IN  /\ (ctx.kind = "External" /\ ctx.if_match = None) =>
                       result[w] = Err("InvalidState")
                /\ (ctx.kind = "External" /\ ctx.if_match = Some(hash)) =>
                       result[w] = NoResult
                /\ (ctx.kind = "External" /\ ctx.if_match \notin {None, Some(hash)}) =>
                       result[w] = Err("PreconditionFailed")
                /\ ctx.kind = "Internal" => result[w] = NoResult

\* C12 witness: an authenticated External caller without token got
\* InvalidState.
C12_Witness ==
    \E w \in active :
        /\ IsCheckIfMatch(w) /\ pc[w] = "done"
        /\ msg[w].ctx.kind = "External" /\ IsSome(msg[w].ctx.user)
        /\ msg[w].ctx.if_match = None
        /\ result[w] = Err("InvalidState")

\* The caller of Demon::patch passes the permission check.
DemonPatchPermitted(w) ==
    \/ msg[w].ctx.kind = "Internal"
    \/ /\ IsSome(msg[w].ctx.user)
       /\ Unwrap(msg[w].ctx.user) \cap DemonPatchPermissions # {}
\* The External caller of Demon::patch sent the token of entity state e.
SentTokenOf(w, e) ==
    /\ msg[w].ctx.kind = "External"
    /\ msg[w].ctx.if_match = Some(DemonHash(e))

\* C13: a Demon::patch whose token was computed from the entity as it is
\* passes check_if_match and goes on to the validators; a token computed from
\* an entity state with a different hash makes it fail with
\* PreconditionFailed, and a patch with such a stale token never reaches the
\* validators, the in-memory patch or the transaction and leaves the store
\* as it was.
C13_TokenRoundTrip ==
    \A w \in active : IsDemonPatch(w) =>
        /\ (/\ SentTokenOf(w, msg[w].demon) /\ DemonPatchPermitted(w)
            /\ pc[w] # "dp_auth") =>
               /\ result[w].tag \notin {"PreconditionFailed", "InvalidState"}
               /\ Precedes(w, "check_if_match", "validate")
               /\ InTrace(w, "validate") \/ pc[w] = "dp_validate"
        /\ \A e \in {msg[w].demon, EarlierState(msg[w].demon)} :
            (SentTokenOf(w, e) /\ DemonHash(e) # DemonHash(msg[w].demon)) =>
               /\ pc[w] \in {"dp_auth", "done"}
               /\ (pc[w] = "done" /\ DemonPatchPermitted(w)) =>
                      /\ result[w] = Err("PreconditionFailed")
                      /\ trace[w] = <<"check_permissions", "check_if_match">>
               /\ ~InTrace(w, "validate") /\ ~InTrace(w, "apply_patch")
               /\ ~InTrace(w, "transaction")
               /\ loc[w].demon = NoDemon
               /\ StoreUnchanged(w)

\* C13 witness: a list moderator's patch of name and position, sent with the
\* token of an earlier state of the demon, failed with PreconditionFailed.
C13_Witness ==
    \E w \in active :
        /\ IsDemonPatch(w) /\ pc[w] = "done"
        /\ msg[w].ctx.user = Some({"ListModerator"})
        /\ SentTokenOf(w, EarlierState(msg[w].demon))
        /\ msg[w].dpatch.name = Some("dn") /\ IsSome(msg[w].dpatch.position)
        /\ result[w] = Err("PreconditionFailed")

\* C13 witness of the round trip: a patch sent with the token of the stored
\* demon was carried out.
C13_WitnessFresh ==
    \E w \in active :
        /\ IsDemonPatch(w) /\ pc[w] = "done"
        /\ SentTokenOf(w, msg[w].demon)
        /\ result[w].tag = "Ok"

\* C14: after a successful Demon::patch the stored row of the demon holds
\* the name, video, requirement, verifier and publisher of the entity the
\* patch returned, whatever the payload, a change of name included.
C14_StoredRowIsPatched ==
    \A w \in active :
        (IsDemonPatch(w) /\ pc[w] = "done" /\ result[w].tag = "Ok") =>
            \E d \in demons :
                /\ d.name = loc[w].demon.name
                /\ d.video = loc[w].demon.video
                /\ d.requirement = loc[w].demon.requirement
                /\ d.verifier = loc[w].demon.verifier
                /\ d.publisher = loc[w].demon.publisher

\* The entity a patch command of worker w is about.
PatchTarget(w) ==
    IF IsDemonPatch(w) THEN <<"Demon", msg[w].demon.name>>
    ELSE <<"User", msg[w].user.id>>
\* The persist step of the patch of worker w has taken effect.
Committed(w) == InTrace(w, "commit") \/ InTrace(w, "update_user")
\* The rows ds after the statements of the closure of the Demon::patch of
\* worker w have run on them one after the other, nothing in between.
ClosureAlone(ds, w) ==
    LET me == loc[w].demon
        position == msg[w].dpatch.position
        moved == IF IsSome(position)
                 THEN MvSetPosition(MvShift(ds, me, Unwrap(position)), me,
                                    Unwrap(position))
                 ELSE ds
    IN  UpdateDemon(moved, me)
\* The stored rows after the persist step of the patch of worker w, if it
\* has taken effect, has run alone on the rows st.
PersistedAlone(st, w) ==
    IF ~Committed(w) THEN st
    ELSE IF IsDemonPatch(w)
         THEN [st EXCEPT !.demons = ClosureAlone(@, w)]
    ELSE [st EXCEPT !.users =
             {IF u.id = loc[w].user.id THEN loc[w].user ELSE u : u \in @}]
\* The pool or the database failed a statement of the patch of worker w for
\* a reason of its own, not for what another worker was doing.
PatchFaulted(w) ==
    \E e \in {"connect_failed", "read_failed", "begin_failed", "update_failed",
              "commit_failed"} : InTrace(w, e)
\* Workers w1 and w2 took two patches of different entities off the mailbox,
\* one right after the other.
PatchTogether(w1, w2) ==
    /\ pc[w1] # "idle" /\ pc[w2] # "idle"
    /\ msg[w2].seq = msg[w1].seq + 1
    /\ PatchTarget(w1) # PatchTarget(w2)

\* C15, its first part: the reshuffle and the row update of one Demon::patch
\* both take effect or neither does. A transaction that has returned Ok has
\* committed what its statements wrote; one that was rolled back has
\* committed nothing and returned the database error; and what a transaction
\* in progress has written is in no committed row before its commit.
C15_BothOrNeither ==
    \A w \in active : IsDemonPatch(w) =>
        /\ (pc[w] = "done" /\ result[w].tag = "Ok") =>
               /\ Committed(w)
               /\ InTrace(w, "update_demon")
               /\ IsSome(msg[w].dpatch.position) =>
                      InTrace(w, "mv") /\ InTrace(w, "set_position")
        /\ InTrace(w, "rollback") =>
               /\ ~Committed(w) /\ result[w] = Err("DatabaseError")
               /\ loc[w].tx = {}
        /\ Committed(w) => pc[w] = "done" /\ result[w].tag = "Ok"
        /\ (~Committed(w) /\ \A v \in active \ {w} : ~Committed(v)) =>
               demons = pre[w].demons

\* C15, its second part: no command on another worker observes the reshuffle
\* without the row update. While two patches of different entities run on
\* two workers, the committed rows, which are all another connection reads,
\* are in every state those that result from running the persist steps that
\* have taken effect, each as a whole, one after the other in one of the two
\* orders on the store the first patch started with.
C15_NoPartialState ==
    \A w1, w2 \in active :
        PatchTogether(w1, w2) =>
            \/ Snapshot = PersistedAlone(PersistedAlone(pre[w1], w1), w2)
            \/ Snapshot = PersistedAlone(PersistedAlone(pre[w1], w2), w1)

\* C15, its third part: concurrent patches to two different entities both
\* complete. Of two such patches that have both returned, one that passed
\* its validators and that neither the pool nor the database failed for a
\* reason of its own has returned Ok.
C15_BothComplete ==
    \A w1, w2 \in active :
        (PatchTogether(w1, w2) /\ pc[w1] = "done" /\ pc[w2] = "done") =>
            \A w \in {w1, w2} :
                (IsDemonPatch(w) /\ InTrace(w, "transaction")
                    /\ ~PatchFaulted(w)) => result[w].tag = "Ok"

\* C15: the persist step of a patch is atomic: the reshuffle and the row
\* update of one Demon::patch both take effect or neither does, no command
\* on another worker observes the one without the other, and concurrent
\* patches to two different entities both complete with the store of a run
\* of the two one after the other.
C15_PersistAtomic ==
    C15_BothOrNeither /\ C15_NoPartialState /\ C15_BothComplete

\* Two patches that both move a demon, of two different demons, ran at once:
\* each had begun its transaction before the other committed, and both
\* succeeded.
C15_WitnessBothCommitted ==
    \E w1, w2 \in active :
        /\ w1 # w2 /\ pc[w1] = "done" /\ pc[w2] = "done"
        /\ IsDemonPatch(w1) /\ IsDemonPatch(w2)
        /\ msg[w1].demon.name # msg[w2].demon.name
        /\ IsSome(msg[w1].dpatch.position) /\ IsSome(msg[w2].dpatch.position)
        /\ msg[w2].seq = msg[w1].seq + 1
        /\ pre[w1] = pre[w2] /\ Snapshot # pre[w1]
        /\ result[w1].tag = "Ok" /\ result[w2].tag = "Ok"

\* A transaction that had moved the demon failed in the row update and was
\* rolled back.
C15_WitnessRollback ==
    \E w \in active :
        /\ IsDemonPatch(w) /\ pc[w] = "done"
        /\ InTrace(w, "set_position") /\ InTrace(w, "update_failed")
        /\ InTrace(w, "rollback")

\* Two transactions each wait for a row the other has written.
C15_WitnessDeadlock ==
    \E w1, w2 \in active :
        /\ w1 # w2 /\ w2 \in WaitsFor(w1) /\ w1 \in WaitsFor(w2)

\* What a patch does beyond its checks: field validators, the in-memory
\* patch with its lookups, connections, and writes.
PatchWorkEvents ==
    {"validate", "apply_patch", "connect", "connect_failed", "transaction", "mv",
     "update_demon", "update_user", "rollback", "read_failed", "read_players",
     "insert_player", "begin_failed", "set_position", "update_failed",
     "deadlock", "commit", "commit_failed"}
\* The External caller of Demon::patch sent no token or a token that is not
\* the hash of the demon.
DemonPatchTokenUnmet(w) ==
    /\ msg[w].ctx.kind = "External"
    /\ msg[w].ctx.if_match # Some(DemonHash(msg[w].demon))
CheckError(r) ==
    r.tag \in {"MissingPermissions", "Unauthorized", "PreconditionFailed",
               "InvalidState"}

\* C16 as stated: in every patch, the Patch message included, every
\* validator, lookup and write comes after a completed permission check and
\* a completed precondition check.
C16_BothChecksFirst ==
    \A w \in active : (IsPatch(w) \/ IsDemonPatch(w)) =>
        \A e \in PatchWorkEvents :
            /\ Precedes(w, "check_permissions", e)
            /\ Precedes(w, "check_if_match", e)

\* C16: in Demon::patch the permission check and the precondition check
\* both come before every validator, lookup, in-memory assignment and write;
\* in the handler of the Patch message the permission check comes before
\* them, and that handler makes no precondition check. A caller that fails a
\* check gets the error of the check, and the command has then run no
\* validator and no lookup, patched nothing in memory and written nothing.
C16_ChecksBeforeWork ==
    \A w \in active : (IsPatch(w) \/ IsDemonPatch(w)) =>
        /\ \A e \in PatchWorkEvents : Precedes(w, "check_permissions", e)
        /\ IsDemonPatch(w) =>
               \A e \in PatchWorkEvents : Precedes(w, "check_if_match", e)
        /\ IsPatch(w) => ~InTrace(w, "check_if_match")
        /\ pc[w] \in {"pa_auth", "dp_auth"} => loc[w] = NoLoc /\ StoreUnchanged(w)
        /\ (\/ IsPatch(w) /\ PatchNoCommonFlag(w)
            \/ IsDemonPatch(w) /\ DemonPatchNoCommonFlag(w)
            \/ IsDemonPatch(w) /\ DemonPatchTokenUnmet(w)
            \/ CheckError(result[w])) =>
               /\ \A e \in PatchWorkEvents : ~InTrace(w, e)
               /\ loc[w] = NoLoc
               /\ StoreUnchanged(w)
               /\ pc[w] = "done" => CheckError(result[w])

\* C16 witness: a Demon::patch of an authorized External caller with the
\* matching token ran its validators and the lookup of the verifier, which
\* failed.
C16_Witness ==
    \E w \in active :
        /\ IsDemonPatch(w) /\ pc[w] = "done"
        /\ msg[w].ctx.kind = "External"
        /\ trace[w] = <<"check_permissions", "check_if_match", "validate",
                        "apply_patch", "read_players">>
        /\ result[w] = ModelNotFound("Player")

IsPlayerByName(w) == msg[w].cmd = "PlayerByName"
IsDemonByName(w) == msg[w].cmd = "DemonByName"
NewPlayers(w) == players \ pre[w].players

\* C18: PlayerByName for a name no player has creates exactly one player,
\* of that name, and returns it; for a name a player has it creates nothing
\* and returns that player. DemonByName for a name no demon has fails with
\* ModelNotFound for the model Demon. No resolution ever creates a demon or
\* touches another player, and one that ends with the error of the pool or
\* of the database creates nothing.
C18_GetOrCreatePlayer ==
    \A w \in active :
        /\ (IsPlayerByName(w) /\ pc[w] = "done") =>
            LET known == {p \in pre[w].players : p.name = msg[w].name} IN
            /\ result[w].tag \in {"Ok", "DatabaseConnectionError", "DatabaseError"}
            /\ result[w].tag # "Ok" <=> StorageFailed(w)
            /\ StorageFailed(w) => NewPlayers(w) = {}
            /\ (result[w].tag = "Ok" /\ known # {}) =>
                   /\ NewPlayers(w) = {}
                   /\ \E p \in known : result[w] = OkSome(p.id) /\ loc[w].player = p
            /\ (result[w].tag = "Ok" /\ known = {}) =>
                   /\ Cardinality(NewPlayers(w)) = 1
                   /\ \A p \in NewPlayers(w) :
                       /\ p.name = msg[w].name
                       /\ result[w] = OkSome(p.id) /\ loc[w].player = p
                       /\ \A q \in pre[w].players : q.id # p.id
        /\ (IsDemonByName(w) /\ pc[w] = "done") =>
            IF StorageFailed(w)
            THEN result[w].tag \in {"DatabaseConnectionError", "DatabaseError"}
            ELSE IF \E d \in pre[w].demons : d.name = msg[w].name
            THEN result[w].tag = "Ok"
            ELSE result[w] = ModelNotFound("Demon")
        /\ (IsPlayerByName(w) \/ IsDemonByName(w)) =>
            /\ demons = pre[w].demons /\ records = pre[w].records
            /\ pre[w].players \subseteq players
            /\ IsDemonByName(w) => NewPlayers(w) = {}

\* C18 witness: PlayerByName created the player of an unknown name.
C18_Witness ==
    \E w \in active :
        /\ IsPlayerByName(w) /\ pc[w] = "done"
        /\ result[w].tag = "Ok"
        /\ \E p \in NewPlayers(w) : p.name = msg[w].name

\* C18 witness for the demon: DemonByName of an unknown name failed.
C18_WitnessDemon ==
    \E w \in active :
        /\ IsDemonByName(w) /\ pc[w] = "done"
        /\ result[w] = ModelNotFound("Demon")

\* The handler of worker w failed to get a connection from the pool.
ConnectFailed(w) == InTrace(w, "connect_failed")
\* .. and it was the user lookup of an authentication that failed to.
ConnectFailedInAuthLookup(w) ==
    /\ msg[w].cmd \in {"TokenAuth", "BasicAuth", "Invalidate"}
    /\ \E i \in DOMAIN trace[w] :
        /\ trace[w][i] \in {"UserById", "UserByName"}
        /\ i < Len(trace[w]) /\ trace[w][i + 1] = "connect_failed"

\* C17 as stated: every command that fails to get a connection from the
\* pool, in its own handler or in one it dispatches to, returns
\* DatabaseConnectionError.
C17_AlwaysConnectionError ==
    \A w \in active :
        (pc[w] = "done" /\ ConnectFailed(w)) =>
            result[w] = Err("DatabaseConnectionError")

\* C17: a command that fails to get a connection from the pool stops there
\* and returns DatabaseConnectionError, except when the failure is in the
\* user lookup TokenAuth and BasicAuth dispatch to (also when BasicAuth runs
\* for Invalidate), which they report as Unauthorized. The handler does
\* nothing after the failure.
C17_ConnectionErrorOrUnauthorized ==
    \A w \in active :
        ConnectFailed(w) =>
            /\ pc[w] = "done"
            /\ trace[w][Len(trace[w])] = "connect_failed"
            /\ result[w] = IF ConnectFailedInAuthLookup(w)
                           THEN Err("Unauthorized")
                           ELSE Err("DatabaseConnectionError")

\* C17 witness: a TokenAuth with a token that would verify got no connection
\* for the lookup of its user.
C17_Witness ==
    \E w \in active :
        /\ msg[w].cmd = "TokenAuth" /\ pc[w] = "done"
        /\ msg[w].auth.token = [wellformed |-> TRUE, id |-> 1, key |-> "password-1"]
        /\ ConnectFailed(w)
        /\ result[w] = Err("Unauthorized")

\* C17 witness for Invalidate: the authentication passed and the connection
\* for the patch could not be had.
C17_WitnessInvalidate ==
    \E w \in active :
        /\ msg[w].cmd = "Invalidate" /\ pc[w] = "done"
        /\ InTrace(w, "verify_password") /\ ConnectFailed(w)
        /\ result[w] = Err("DatabaseConnectionError")

\* C17 witness for ProcessSubmission, its own connection: the player and the
\* demon were resolved and the pool had no connection for the handler itself.
C17_WitnessSubmission ==
    \E w \in active :
        /\ IsPS(w) /\ pc[w] = "done"
        /\ InTrace(w, "PlayerByName") /\ InTrace(w, "DemonByName")
        /\ loc[w].demon.name = msg[w].sub.demon /\ ConnectFailed(w)
        /\ result[w] = Err("DatabaseConnectionError")

\* C17 witness for ProcessSubmission, a handler it calls: the pool had no
\* connection for DemonByName.
C17_WitnessCalledHandler ==
    \E w \in active :
        /\ IsPS(w) /\ pc[w] = "done"
        /\ trace[w][Len(trace[w]) - 1] = "DemonByName" /\ ConnectFailed(w)
        /\ result[w] = Err("DatabaseConnectionError")

\* C17 witness for the generic Patch: the patch was permitted and applied
\* to the object, and the pool had no connection to store it with.
C17_WitnessPatch ==
    \E w \in active :
        /\ msg[w].cmd = "Patch" /\ pc[w] = "done"
        /\ InTrace(w, "apply_patch") /\ ConnectFailed(w) /\ StoreUnchanged(w)
        /\ result[w] = Err("DatabaseConnectionError")

IsPaginate(w) == pc[w] # "idle" /\ msg[w].cmd = "Paginate"

\* The filter of the Paginate command of w matches no row of the store.
\* Where rows are only added, it matched none at any statement of the
\* command either.
NothingMatches(w) == Filtered(users, msg[w].page) = {}

\* The header of a result has four links, first, prev, next and last in that
\* order, each with an empty target.
EmptyLinks(header) ==
    /\ Len(header) = 4
    /\ \A i \in 1..4 : header[i][1] = << >>
    /\ [i \in 1..4 |-> header[i][2]] = <<"first", "prev", "next", "last">>

C20_WitnessStorageError ==
    \E w \in active :
        /\ IsPaginate(w) /\ pc[w] = "done" /\ NothingMatches(w)
        /\ Len(trace[w]) = 7 /\ trace[w][7] = "read_failed"
        /\ result[w] = Err("DatabaseError")

\* C20 witness of the panic: over users none of which matches the filter, a
\* serializer that rejects None left the command without a result.
C20_WitnessPanic ==
    \E w \in active :
        /\ IsPaginate(w) /\ pc[w] = "panicked" /\ NothingMatches(w)
        /\ pre[w].users # {} /\ InTrace(w, "unwrap_panic")

C20_WitnessTorn ==
    \E w \in active :
        /\ IsPaginate(w) /\ pc[w] = "done" /\ result[w].tag = "Ok"
        /\ result[w].header[3][1] = <<"id", 2>>
        /\ result[w].header[4][1] = <<"id", 2>>

\* C20 witness of the other case: the filter matches a user and the first
\* link of the header has a target.
C20_WitnessNonEmpty ==
    \E w \in active :
        /\ IsPaginate(w) /\ pc[w] = "done"
        /\ ~NothingMatches(w)
        /\ result[w].tag = "Ok"
        /\ result[w].header[1][1] # << >>

Busy(w) == pc[w] \notin {"idle", "done"}

\* Worker w is executing a statement of a handler that the handler of its
\* message called, directly or through another handler.
InCalledHandler(w) ==
    \/ msg[w].cmd = "ProcessSubmission"
        /\ pc[w] \in {"pbn_query", "pbn_insert", "dbn_query"}
    \/ msg[w].cmd = "TokenAuth" /\ pc[w] = "ubi_query"
    \/ msg[w].cmd = "BasicAuth" /\ pc[w] = "ubn_query"
    \/ msg[w].cmd = "Invalidate"
        /\ pc[w] \in {"ba_start", "ubn_query", "ba_verify", "pcu_apply", "pcu_update"}

\* C19: with two workers each executing a command whose handler calls other
\* handlers, a worker that is executing a handler can always execute its next
\* statement, whatever the other worker is doing; a step of a handler takes
\* nothing off the mailbox and starts nothing on the other worker; and every
\* command a worker has taken reaches its return.
C19_SubDispatchCompletes ==
    /\ [](\A w \in {1, 2} : Busy(w) => ENABLED DispatchStep(w))
    /\ [][\A w \in {1, 2} :
            (Busy(w) /\ pc'[w] # pc[w]) =>
                /\ ncmds' = ncmds
                /\ \A v \in {1, 2} \ {w} : pc'[v] = pc[v] /\ msg'[v] = msg[v]]_vars
    /\ \A w \in {1, 2} : (pc[w] # "idle") ~> (pc[w] = "done")

\* C19 witness: both workers are inside handlers that their commands called.
C19_Witness ==
    /\ active = {1, 2}
    /\ \A w \in active : InCalledHandler(w)

\* C19 witness of the completion: an Invalidate and a ProcessSubmission ran
\* at the same time through every handler they call and returned Ok.
C19_WitnessDone ==
    \E w, v \in active :
        /\ pc[w] = "done" /\ pc[v] = "done"
        /\ msg[w].cmd = "Invalidate" /\ msg[v].cmd = "ProcessSubmission"
        /\ msg[v].seq = 1 /\ msg[w].seq = 2
        /\ InTrace(w, "UserByName") /\ InTrace(w, "PatchCurrentUser")
        /\ InTrace(v, "PlayerByName") /\ InTrace(v, "DemonByName")
        /\ result[w].tag = "Ok" /\ result[v].tag = "Ok"

\* C21 as stated: in ProcessSubmission the names are resolved before the
\* video is validated: a submission with a video that does not validate and a demon that does not exist returns
\* ModelNotFound for the demon (unless the pool hands out no connection), and
\* one with such a video and the name of no player returns after the player
\* was created.
C21_NamesBeforeVideo ==
    \A w \in active :
        (IsPS(w) /\ ~msg[w].submitter.banned /\ msg[w].sub.video # NoVideo
                 /\ pc[w] = "done" /\ ~VideoValid(msg[w].sub.video)) =>
                /\ ((\A d \in pre[w].demons : d.name # msg[w].sub.demon)
                        /\ ~InTrace(w, "connect_failed")) =>
                       result[w] = ModelNotFound("Demon")
                /\ ((\A p \in pre[w].players : p.name # msg[w].sub.player)
                        /\ result[w] = Err("InvalidVideo")) =>
                       \E p \in players : p.name = msg[w].sub.player

\* C22: every record a ProcessSubmission inserts has the status Submitted,
\* the id of a stored player that is not banned, the id of the submitter of
\* the message, who is not banned, and the name of a stored demon whose
\* position is at most EXTENDED_LIST_SIZE, with a progress between the
\* requirement of the demon and 100 that is 100 when the position is greater
\* than LIST_SIZE.
C22_InsertedRecordValid ==
    \A w \in active :
        IsPS(w) =>
            \A r \in NewRecords(w) :
                /\ r.status = "Submitted"
                /\ r.progress = msg[w].sub.progress
                /\ \E p \in players :
                    p.id = r.player /\ p.name = msg[w].sub.player /\ ~p.banned
                /\ r.submitter = msg[w].submitter.id
                /\ ~msg[w].submitter.banned
                /\ \E d \in demons :
                    /\ d.name = r.demon /\ d.name = msg[w].sub.demon
                    /\ d.position <= EXTENDED_LIST_SIZE
                    /\ d.requirement <= r.progress /\ r.progress <= 100
                    /\ d.position > LIST_SIZE => r.progress = 100

\* C22 witness: a submission with progress 100 for a demon of the extended
\* list inserted its record.
C22_Witness ==
    \E w \in active :
        /\ IsPS(w) /\ pc[w] = "done" /\ result[w].tag = "Ok"
        /\ \E r \in NewRecords(w), d \in demons :
            /\ d.name = r.demon
            /\ d.position > LIST_SIZE /\ d.position <= EXTENDED_LIST_SIZE
            /\ r.progress = 100

\* C22 witness on the main list: a record with a progress below 100 was
\* inserted.
C22_WitnessMainList ==
    \E w \in active :
        /\ IsPS(w) /\ pc[w] = "done"
        /\ \E r \in NewRecords(w), d \in demons :
            d.name = r.demon /\ d.position <= LIST_SIZE /\ r.progress < 100

\* C21 amended: in ProcessSubmission the video is validated before the names
\* are resolved: a submission with a video that does not validate returns the
\* error of the validation, whatever its names, before any name is resolved:
\* no player was created and the store is the one the command started with.
C21_VideoBeforeNames ==
    \A w \in active :
        (IsPS(w) /\ msg[w].sub.video # NoVideo) =>
            /\ Precedes(w, "video_validate", "PlayerByName")
            /\ Precedes(w, "video_validate", "DemonByName")
            /\ (pc[w] = "done" /\ ~msg[w].submitter.banned
                    /\ ~VideoValid(msg[w].sub.video)) =>
                /\ result[w] = Err("InvalidVideo")
                /\ ~InTrace(w, "PlayerByName")
                /\ StoreUnchanged(w)

\* C21 witness: a submission with a video that does not validate, the name of
\* no player and the name of no demon returned the error of the video.
C21_Witness ==
    \E w \in active :
        /\ IsPS(w) /\ pc[w] = "done"
        /\ msg[w].sub.video = "bad"
        /\ \A p \in players : p.name # msg[w].sub.player
        /\ \A d \in demons : d.name # msg[w].sub.demon
        /\ result[w] = Err("InvalidVideo")

\* C21 witness of the order: a submission with a video that validates went
\* on to resolve its names.
C21_WitnessValid ==
    \E w \in active :
        /\ IsPS(w) /\ msg[w].sub.video = "u1"
        /\ InTrace(w, "video_validate") /\ InTrace(w, "DemonByName")

\* The number of connections worker w got from the pool for its command.
Checkouts(w) == Cardinality({i \in DOMAIN trace[w] : trace[w][i] = "connect"})

\* C23: a worker holds at most one pooled connection at a time, it checks
\* out one connection for a command, and it holds that connection until the
\* command returns: the handlers it calls check out none of their own.
C23_OneCheckoutPerCommand ==
    \A w \in active :
        /\ held[w] \in {0, 1}
        /\ Checkouts(w) <= 1
        /\ (Checkouts(w) = 1 /\ pc[w] # "done") => held[w] = 1

IsInvalidate(w) == msg[w].cmd = "Invalidate"

\* The stored user the Basic credentials of the message authenticate, if any.
Authenticated(w) ==
    {u \in pre[w].users :
        /\ msg[w].auth.kind = "Basic"
        /\ u.name = msg[w].auth.username
        /\ u.password = msg[w].auth.password}

\* C24: an Invalidate never changes anything but the password of the user
\* its Basic credentials authenticate, which becomes the password of the
\* credentials; it returns Ok only for such credentials; with an
\* authorization that is not Basic, or with a name or password that does not
\* authenticate, it returns Unauthorized and the store is unchanged.
C24_InvalidatePatchesPasswordOnly ==
    \A w \in active :
        IsInvalidate(w) =>
            /\ users = pre[w].users
               \/ \E u \in Authenticated(w) :
                    users = (pre[w].users \ {u})
                            \cup {[u EXCEPT !.password = msg[w].auth.password]}
            /\ [Snapshot EXCEPT !.users = {}] = [pre[w] EXCEPT !.users = {}]
            /\ pc[w] = "done" =>
                /\ result[w].tag = "Ok" =>
                    Authenticated(w) # {} /\ InTrace(w, "update_user")
                /\ Authenticated(w) = {} =>
                    result[w] = Err("Unauthorized") /\ StoreUnchanged(w)

\* C24 witness: an Invalidate with the password of user1 went through the
\* authentication and the update of the user and returned Ok.
C24_Witness ==
    \E w \in active :
        /\ IsInvalidate(w) /\ pc[w] = "done"
        /\ msg[w].auth.username = "user1" /\ msg[w].auth.password = "password-1"
        /\ InTrace(w, "verify_password") /\ InTrace(w, "update_user")
        /\ result[w].tag = "Ok"

\* C24 witness of a refusal: an Invalidate with the name of user1 and a wrong
\* password got as far as the password check and returned Unauthorized.
C24_WitnessRefused ==
    \E w \in active :
        /\ IsInvalidate(w) /\ pc[w] = "done"
        /\ msg[w].auth.kind = "Basic" /\ msg[w].auth.password = "wrong"
        /\ msg[w].auth.username = "user1"
        /\ InTrace(w, "verify_password")
        /\ result[w] = Err("Unauthorized")

IsAuth(w) == msg[w].cmd \in {"TokenAuth", "BasicAuth"}

\* What makes the authentication of the message of w fail before the
\* credential is verified: the wrong variant of Authorization, a token that
\* does not decode, a user that does not exist, a query that failed, no
\* connection for the lookup.
AuthFailsEarly(w) ==
    \/ msg[w].cmd = "TokenAuth" /\ msg[w].auth.kind # "Token"
    \/ msg[w].cmd = "BasicAuth" /\ msg[w].auth.kind # "Basic"
    \/ msg[w].cmd = "TokenAuth" /\ ~msg[w].auth.token.wellformed
    \/ msg[w].cmd = "TokenAuth"
        /\ \A u \in pre[w].users : u.id # msg[w].auth.token.id
    \/ msg[w].cmd = "BasicAuth"
        /\ \A u \in pre[w].users : u.name # msg[w].auth.username
    \/ InTrace(w, "read_failed")
    \/ InTrace(w, "connect_failed")

\* C25: TokenAuth and BasicAuth never write to the store, and they return Ok
\* or Unauthorized, nothing else: Unauthorized whenever the authentication
\* fails before the credential is verified, and never Ok then.
C25_OnlyUnauthorized ==
    \A w \in active :
        IsAuth(w) =>
            /\ StoreUnchanged(w)
            /\ pc[w] = "done" =>
                /\ result[w].tag = "Ok" \/ result[w] = Err("Unauthorized")
                /\ AuthFailsEarly(w) =>
                    /\ result[w] = Err("Unauthorized")
                    /\ ~InTrace(w, "validate_token")
                    /\ ~InTrace(w, "verify_password")

\* C25 witness: a BasicAuth whose lookup of the user failed in the query
\* returned Unauthorized.
C25_Witness ==
    \E w \in active :
        /\ msg[w].cmd = "BasicAuth" /\ pc[w] = "done"
        /\ msg[w].auth.username = "user1" /\ msg[w].auth.password = "password-1"
        /\ InTrace(w, "read_failed")
        /\ result[w] = Err("Unauthorized")

\* C25 witness for TokenAuth: a token with the id of no user returned
\* Unauthorized after the lookup found nothing.
C25_WitnessToken ==
    \E w \in active :
        /\ msg[w].cmd = "TokenAuth" /\ pc[w] = "done"
        /\ msg[w].auth.token.wellformed /\ msg[w].auth.token.id = 9
        /\ InTrace(w, "read_users")
        /\ result[w] = Err("Unauthorized")

\* C25 witness of a success: a TokenAuth returned its user.
C25_WitnessOk ==
    \E w \in active :
        /\ IsAuth(w) /\ pc[w] = "done" /\ result[w] = OkSome(1)
        /\ InTrace(w, "validate_token")

\* C26: a player has at most one record with the status Submitted for a
\* demon, in every state ProcessSubmission commands lead to.
C26_OneSubmittedPerPair ==
    \A r1, r2 \in records :
        (r1.player = r2.player /\ r1.demon = r2.demon
            /\ r1.status = "Submitted" /\ r2.status = "Submitted") => r1 = r2

IsGetOrCreate(w) == msg[w].cmd \in {"PlayerByName", "SubmitterByIp", "Register"}

\* C27: whatever the interleaving of the get-or-create commands of two
\* workers, a name is the name of at most one player and of at most one user
\* and an address that of at most one submitter; a command that met no
\* error of the pool or the database returns Ok with a row of its key, or
\* NameTaken from a Register that created no user; and no command gets the
\* error of a refused insert while a row of its key exists.
C27_GetOrCreateUnique ==
    /\ \A p, q \in players : p.name = q.name => p = q
    /\ \A s, r \in submitters : s.ip = r.ip => s = r
    /\ \A u, v \in users : u.name = v.name => u = v
    /\ \A w \in active :
        (IsGetOrCreate(w) /\ pc[w] = "done") =>
            /\ InTrace(w, "insert_failed") =>
                /\ \A p \in players : p.name # msg[w].name
                /\ \A s \in submitters : s.ip # msg[w].name
                /\ \A u \in users : u.name # msg[w].reg.name
            /\ (msg[w].cmd = "PlayerByName" /\ ~StorageFailed(w)) =>
                \E p \in players : p.name = msg[w].name /\ result[w] = OkSome(p.id)
            /\ (msg[w].cmd = "SubmitterByIp" /\ ~StorageFailed(w)) =>
                \E s \in submitters : s.ip = msg[w].name /\ result[w] = OkSome(s.id)
            /\ (msg[w].cmd = "Register" /\ ~StorageFailed(w)
                    /\ InTrace(w, "read_users") /\ ~InTrace(w, "insert_user")) =>
                result[w] = Err("NameTaken")

====
